---- MODULE Spec2Model ----
(***************************************************************************)
(* Speech-to-speech translator: the pipeline controller of ui_app.py       *)
(* (SpeechTranslationController: worker thread, lifecycle, cancellation,   *)
(* shared status/log) and the segmentation engine of silero_vadhelper.py   *)
(* (SileroVADHelper.start: frames, speech/silence state machine).          *)
(*                                                                         *)
(* Spec      the controller with concurrent callers and its workers; the   *)
(*           engine is seen through the generator protocol only.           *)
(* FairSpec  Spec with the fairness the thread scheduler gives.            *)
(* SpecVAD   the engine alone, fed by an audio callback and a clock.       *)
(* SpecScenario  the engine with its default parameters, fed in real time. *)
(* SpecStart, SpecSnapshot, SpecLog, SpecSerial, SpecRun, SpecSession,     *)
(* SpecPairs the controller under particular callers; SpecFine with        *)
(*           start() statement by statement; SpecLocks the two locks,      *)
(*           FairSpecLocks and LiveSpecLocks with fairness.                *)
(***************************************************************************)
EXTENDS Integers, Sequences, FiniteSets, TLC

(***************************************************************************)
(* Bounds of the controller model.                                         *)
(***************************************************************************)
MaxStoppers == 2
MaxCalls == 3
MaxSegments == 1

\* threads that can be inside _stop_pipeline() or restart_with() at once
Stoppers == 1 .. MaxStoppers
\* a call launches at most one worker
Workers == 1 .. MaxCalls

(***************************************************************************)
(* The language / voice catalog handed to the controller's constructor:    *)
(* languages maps a language code to the names of its voices, in order.    *)
(* The catalog the application builds holds no language without a voice    *)
(* (ui_app.py:88-89); the constructor takes any catalog.                   *)
(***************************************************************************)
VARIABLE languages       \* _languages, with _voices the voices it names

\* what _build_language_options() returns
BuiltCatalog == [code \in {"en", "fr"} |->
                    IF code = "fr" THEN <<"fr-A", "fr-B">> ELSE <<"en-A">>]

\* a catalog with a language that has no voice
SparseCatalog == [code \in {"en", "fr", "de"} |->
                    IF code = "fr" THEN <<"fr-A", "fr-B">>
                    ELSE IF code = "en" THEN <<"en-A">>
                    ELSE <<>>]

Languages == DOMAIN languages

VoicesOf(code) == IF code \in Languages THEN languages[code] ELSE <<>>

VoiceNames == UNION {{languages[code][i] : i \in 1 .. Len(languages[code])} : code \in Languages}

\* silence durations are in tenths of a second
MinSilenceTenths == 5

\* the arguments of start() and restart_with(): a voice that is not one of the
\* target language with a silence below the minimum, and a target language
\* the catalog does not have
Configs ==
    {[source_lang |-> "en", target_lang |-> "fr", voice_name |-> "en-A",
      silence_seconds |-> 2],
     [source_lang |-> "en", target_lang |-> "xx", voice_name |-> "fr-B",
      silence_seconds |-> 30]}

NoConfig ==
    [source_lang |-> "", target_lang |-> "", voice_name |-> "", silence_seconds |-> 0]

NoArgs == [voice |-> "", silence |-> 0]

Max(a, b) == IF a >= b THEN a ELSE b

SeqToSet(s) == {s[i] : i \in 1 .. Len(s)}

VARIABLES
    \* SpeechTranslationController fields
    thread,              \* _thread: 0 (None) or the worker it refers to
    stop_event,          \* _stop_event
    vad_stream,          \* _vad_stream: 0 (None) or the worker whose generator it is
    current_tts,         \* _current_tts: 0 (None) or the worker whose synthesizer it is
    status,              \* _status
    last_transcription,  \* _last_transcription
    last_translation,    \* _last_translation
    log_lines,           \* _log_lines
    \* worker threads running _run_pipeline
    wpc,                 \* position of each worker in _run_pipeline
    wargs,               \* the arguments the thread was created with
    gen,                 \* state of the generator vad.start() of each worker
    segs,                \* segments the worker's engine has yielded
    wtext,               \* the worker's locals text / translated
    tts_stops,           \* synthesizers that received stop()
    \* threads inside stop / hard_stop / restart_with (start is one locked block)
    cpc,                 \* position of each such thread, "idle" when in no call
    cop,                 \* the operation it is in
    cthread,             \* _stop_pipeline's local thread
    ctts,                \* _stop_pipeline's local current_tts
    ccfg,                \* restart_with's arguments
    ret,                 \* the latest call that returned, and its value
    \* history
    calls,               \* calls issued so far
    launched,            \* workers launched so far
    run_open             \* a start() launched a worker and no step of a stop ran since

VARIABLES
    \* SileroVADHelper fields and the locals of its start()
    vad,                 \* sample_rate, threshold, silence_duration, min_chunk_sec
    audio_queue,         \* audio_queue: the blocks the audio callback has put
    rolling_buffer,      \* rolling_buffer
    speech_active,       \* speech_active
    speech_buffer,       \* speech_buffer: the frames of the utterance in progress
    last_speech_time,    \* last_speech_time
    now,                 \* time.time(), in milliseconds
    emitted,             \* the segments yielded so far
    \* history
    fed,                 \* samples the audio callback has delivered
    discarded,           \* the candidates dropped as too short
    above,               \* the samples of every frame above the threshold, in order
    loudest,             \* the highest probability a frame has had
    last_frame,          \* the latest frame through the classifier, and what became of it
    scenario,            \* the real-time scenario: its frames of speech and of silence
    phase                \* where the real-time scenario is in its cycle

cvars ==
    <<thread, stop_event, vad_stream, current_tts, status, last_transcription,
      last_translation, log_lines, wpc, wargs, gen, segs, wtext, tts_stops,
      cpc, cop, cthread, ctts, ccfg, ret, calls, launched, run_open>>

evars ==
    <<vad, audio_queue, rolling_buffer, speech_active, speech_buffer,
      last_speech_time, now, emitted, fed, discarded, above, loudest,
      last_frame, scenario, phase>>

\* the catalog, and what the latest snapshot() returned
VARIABLE snap

\* the two locks and the threads that take them
VARIABLES
    thread_lock,         \* _thread_lock: the thread that holds it, or "free"
    state_lock,          \* _state_lock: the thread that holds it, or "free"
    path,                \* the path of each thread through its method
    lpc                  \* how far each thread is on its path

lvars == <<thread_lock, state_lock, path, lpc>>

svars == <<languages, snap, lvars>>

vars == <<cvars, evars, svars>>

(***************************************************************************)
(* threading.Thread.is_alive() of worker w, and the workers that exist.    *)
(***************************************************************************)
IsAlive(w) == wpc[w] \notin {"unborn", "dead"}

AliveWorkers == {w \in Workers : IsAlive(w)}

NoReturn == [op |-> "none", value |-> "", raised |-> FALSE]

Returned(op, value) == [op |-> op, value |-> value, raised |-> FALSE]

\* the call op ended with the exception exc
Raised(op, exc) == [op |-> op, value |-> exc, raised |-> TRUE]

NoSnap == [log |-> <<>>, transcription |-> "", translation |-> "", status |-> "none"]

\* the application's controller (ui_app.py:362) and its observer
LockThreads == {"starter", "starter2", "stopper", "worker", "poller"}

\* nobody holds a lock; the callers are about to call, the worker is not born
LocksInit ==
    /\ thread_lock = "free"
    /\ state_lock = "free"
    /\ path = [t \in LockThreads |->
                  CASE t \in {"starter", "starter2"} -> "start"
                    [] t = "stopper" -> "stop"
                    [] t = "worker" -> "run"
                    [] OTHER -> "snapshot"]
    /\ lpc = [t \in LockThreads |-> IF t = "worker" THEN 0 ELSE 1]

AppInit == languages = BuiltCatalog /\ snap = NoSnap /\ LocksInit

ControllerInit ==
    /\ thread = 0
    /\ stop_event = FALSE
    /\ vad_stream = 0
    /\ current_tts = 0
    /\ status = "Stopped"
    /\ last_transcription = ""
    /\ last_translation = ""
    /\ log_lines = <<>>
    /\ wpc = [w \in Workers |-> "unborn"]
    /\ wargs = [w \in Workers |-> NoArgs]
    /\ gen = [w \in Workers |-> "none"]
    /\ segs = [w \in Workers |-> 0]
    /\ wtext = [w \in Workers |-> ""]
    /\ tts_stops = {}
    /\ cpc = [c \in Stoppers |-> "idle"]
    /\ cop = [c \in Stoppers |-> "none"]
    /\ cthread = [c \in Stoppers |-> 0]
    /\ ctts = [c \in Stoppers |-> 0]
    /\ ccfg = [c \in Stoppers |-> NoConfig]
    /\ ret = NoReturn
    /\ calls = 0
    /\ launched = 0
    /\ run_open = FALSE

(***************************************************************************)
(* start(): the whole call runs under _thread_lock.  op is "start", or     *)
(* "restart_with" for the start() that ends restart_with().                *)
(***************************************************************************)
\* lines 324-326: _append_log
AppendLog(log, message) == Append(log, message)

\* line 342: _reset_state empties the log
ResetLog == <<>>

\* a faulty variant of AlreadyRunning: the check of line 144 is never true
AlreadyRunning_Never == FALSE

\* line 144
AlreadyRunning == thread # 0 /\ IsAlive(thread)

\* a faulty variant of InvalidLanguage: the source language is not looked up
InvalidLanguage_TargetOnly(cfg) == cfg.target_lang \notin Languages

\* lines 147-149
InvalidLanguage(cfg) ==
    cfg.source_lang \notin Languages \/ cfg.target_lang \notin Languages

\* line 158 on a target language without a voice: voices[0] raises IndexError.
\* The test of line 161 comes after it, and a VoiceOption is never false, so
\* lines 162-164 are not reached
NoVoice(cfg) ==
    /\ ~(cfg.voice_name \in VoiceNames
            /\ cfg.voice_name \in SeqToSet(VoicesOf(cfg.target_lang)))
    /\ VoicesOf(cfg.target_lang) = <<>>

\* a faulty variant of ResolveVoice: the requested voice is used as it is
ResolveVoice_Requested(cfg) == cfg.voice_name

\* lines 154-159
ResolveVoice(cfg) ==
    LET tvoices == VoicesOf(cfg.target_lang)
    IN  IF cfg.voice_name \in VoiceNames /\ cfg.voice_name \in SeqToSet(tvoices)
        THEN cfg.voice_name
        ELSE tvoices[1]

\* a faulty variant of ClampSilence: the smaller of the two is taken
ClampSilence_Smaller(s) == IF s <= MinSilenceTenths THEN s ELSE MinSilenceTenths

\* line 166
ClampSilence(s) == Max(MinSilenceTenths, s)

\* the format :.1f of a duration in tenths of a second
FormatSeconds(t) == ToString(t \div 10) \o "." \o ToString(t % 10) \o "s"

\* lines 169-175
InitLog(voice, silence) ==
    "Initializing pipeline with TTS voice " \o voice \o ", silence duration "
        \o FormatSeconds(silence)

\* a faulty variant of StartCall: the stop flag is left as it is (line 178
\* missing)
StartCall_KeepsFlag(op, cfg) ==
    IF AlreadyRunning
    THEN /\ ret' = Returned(op, "Already running")
         /\ UNCHANGED <<thread, stop_event, status, last_transcription,
                        last_translation, log_lines, wpc, wargs, launched, run_open>>
    ELSE IF InvalidLanguage(cfg)
    THEN /\ log_lines' = AppendLog(log_lines, "Invalid language selection.")
         /\ status' = "Error"
         /\ ret' = Returned(op, "Invalid language selection")
         /\ UNCHANGED <<thread, stop_event, last_transcription, last_translation,
                        wpc, wargs, launched, run_open>>
    ELSE IF NoVoice(cfg)
    THEN /\ ret' = Raised(op, "IndexError")
         /\ UNCHANGED <<thread, stop_event, status, last_transcription,
                        last_translation, log_lines, wpc, wargs, launched, run_open>>
    ELSE LET voice == ResolveVoice(cfg)
             silence == ClampSilence(cfg.silence_seconds)
             w == launched + 1
         IN  /\ log_lines' = AppendLog(ResetLog, InitLog(voice, silence))
             /\ last_transcription' = ""
             /\ last_translation' = ""
             /\ status' = "Initializing..."
             /\ stop_event' = stop_event
             /\ thread' = w
             /\ wpc' = [wpc EXCEPT ![w] = "init"]
             /\ wargs' = [wargs EXCEPT ![w] = [voice |-> voice, silence |-> silence]]
             /\ launched' = w
             /\ run_open' = TRUE
             /\ ret' = Returned(op, "Initializing...")

\* lines 143-190, under _thread_lock
StartCall(op, cfg) ==
    IF AlreadyRunning
    THEN /\ ret' = Returned(op, "Already running")
         /\ UNCHANGED <<thread, stop_event, status, last_transcription,
                        last_translation, log_lines, wpc, wargs, launched, run_open>>
    ELSE IF InvalidLanguage(cfg)
    THEN /\ log_lines' = AppendLog(log_lines, "Invalid language selection.")
         /\ status' = "Error"
         /\ ret' = Returned(op, "Invalid language selection")
         /\ UNCHANGED <<thread, stop_event, last_transcription, last_translation,
                        wpc, wargs, launched, run_open>>
    ELSE IF NoVoice(cfg)
    THEN /\ ret' = Raised(op, "IndexError")
         /\ UNCHANGED <<thread, stop_event, status, last_transcription,
                        last_translation, log_lines, wpc, wargs, launched, run_open>>
    ELSE LET voice == ResolveVoice(cfg)
             silence == ClampSilence(cfg.silence_seconds)
             w == launched + 1
         IN  /\ log_lines' = AppendLog(ResetLog, InitLog(voice, silence))
             /\ last_transcription' = ""
             /\ last_translation' = ""
             /\ status' = "Initializing..."
             /\ stop_event' = FALSE
             /\ thread' = w
             /\ wpc' = [wpc EXCEPT ![w] = "init"]
             /\ wargs' = [wargs EXCEPT ![w] = [voice |-> voice, silence |-> silence]]
             /\ launched' = w
             /\ run_open' = TRUE
             /\ ret' = Returned(op, "Initializing...")

\* start(cfg), lines 136-190, as one of at most n calls
StartWithin(cfg, n) ==
    /\ calls < n
    /\ StartCall("start", cfg)
    /\ calls' = calls + 1
    /\ UNCHANGED <<vad_stream, current_tts, gen, segs, wtext, tts_stops, cpc, cop,
                   cthread, ctts, ccfg>>
    /\ UNCHANGED <<evars, svars>>

StartWith(cfg) == StartWithin(cfg, MaxCalls)

Start == \E cfg \in Configs : StartWith(cfg)

(***************************************************************************)
(* _stop_pipeline(force): stop() is force = FALSE, hard_stop() force = TRUE.*)
(* restart_with() is stop() followed by start().                           *)
(***************************************************************************)
Force(c) == cop[c] = "hard_stop"

\* line 195
NothingToStop == thread = 0 \/ ~IsAlive(thread)

\* line 199
StoppingStatus(op) == IF op = "hard_stop" THEN "Hard stopping..." ELSE "Stopping..."

\* a thread not inside a call; a new call is given to the first such thread
Free(c) == cpc[c] = "idle" /\ \A d \in Stoppers : d < c => cpc[d] # "idle"

\* where a thread goes when its _stop_pipeline returns r
StopReturns(c, op, r) ==
    IF op = "restart_with"
    THEN /\ cpc' = [cpc EXCEPT ![c] = "restart_start"]
         /\ ret' = ret
         /\ UNCHANGED <<cop, ccfg>>
    ELSE /\ cpc' = [cpc EXCEPT ![c] = "idle"]
         /\ ret' = Returned(op, r)
         /\ cop' = [cop EXCEPT ![c] = "none"]
         /\ UNCHANGED ccfg

\* a faulty variant of AlreadyStopped: the early return is missing its guard
\* on the event, which gets set although nothing runs
AlreadyStopped_SetsEvent(c, op, cfg) ==
    /\ status' = "Stopped"
    /\ IF op = "restart_with"
       THEN /\ cpc' = [cpc EXCEPT ![c] = "restart_start"]
            /\ cop' = [cop EXCEPT ![c] = op]
            /\ ccfg' = [ccfg EXCEPT ![c] = cfg]
            /\ ret' = ret
       ELSE /\ ret' = Returned(op, "Already stopped")
            /\ UNCHANGED <<cpc, cop, ccfg>>
    /\ stop_event' = TRUE
    /\ UNCHANGED <<cthread, ctts>>

\* lines 196-197: nothing runs, the call returns at once
AlreadyStopped(c, op, cfg) ==
    /\ status' = "Stopped"
    /\ IF op = "restart_with"
       THEN /\ cpc' = [cpc EXCEPT ![c] = "restart_start"]
            /\ cop' = [cop EXCEPT ![c] = op]
            /\ ccfg' = [ccfg EXCEPT ![c] = cfg]
            /\ ret' = ret
       ELSE /\ ret' = Returned(op, "Already stopped")
            /\ UNCHANGED <<cpc, cop, ccfg>>
    /\ UNCHANGED <<stop_event, cthread, ctts>>

\* lines 193-201, under _thread_lock, as one of at most n calls
StopEnterWithin(c, op, cfg, n) ==
    /\ Free(c)
    /\ calls < n
    /\ calls' = calls + 1
    /\ run_open' = FALSE
    /\ IF NothingToStop
       THEN AlreadyStopped(c, op, cfg)
       ELSE /\ status' = StoppingStatus(op)
            /\ stop_event' = TRUE
            /\ cthread' = [cthread EXCEPT ![c] = thread]
            /\ ctts' = [ctts EXCEPT ![c] = current_tts]
            /\ cpc' = [cpc EXCEPT ![c] = "close"]
            /\ cop' = [cop EXCEPT ![c] = op]
            /\ ccfg' = [ccfg EXCEPT ![c] = cfg]
            /\ ret' = ret
    /\ UNCHANGED <<thread, vad_stream, current_tts, last_transcription,
                   last_translation, log_lines, wpc, wargs, gen, segs, wtext,
                   tts_stops, launched>>
    /\ UNCHANGED <<evars, svars>>

StopEnter(c, op, cfg) == StopEnterWithin(c, op, cfg, MaxCalls)

Stop(c) == StopEnter(c, "stop", NoConfig)

HardStop(c) == StopEnter(c, "hard_stop", NoConfig)

\* a faulty variant of RestartCall: restart_with() goes to its start() without
\* the stop() before it
RestartCall_StartOnly(c, cfg) ==
    /\ Free(c)
    /\ calls < MaxCalls
    /\ calls' = calls + 1
    /\ run_open' = FALSE
    /\ cpc' = [cpc EXCEPT ![c] = "restart_start"]
    /\ cop' = [cop EXCEPT ![c] = "restart_with"]
    /\ ccfg' = [ccfg EXCEPT ![c] = cfg]
    /\ UNCHANGED <<thread, stop_event, vad_stream, current_tts, status,
                   last_transcription, last_translation, log_lines, wpc, wargs, gen,
                   segs, wtext, tts_stops, cthread, ctts, ret, launched>>
    /\ UNCHANGED <<evars, svars>>

\* line 358: restart_with(cfg) begins with stop()
RestartCall(c, cfg) == StopEnter(c, "restart_with", cfg)

RestartWith(c) == \E cfg \in Configs : RestartCall(c, cfg)

\* generator.close() called by another thread: a generator that is executing
\* refuses it (ValueError, swallowed at line 206); one suspended at its yield,
\* or not yet started, is closed
CloseGenerator(g) ==
    IF g \in {"created", "suspended"} THEN "closed" ELSE g

\* lines 203-209
StopClose(c) ==
    /\ cpc[c] = "close"
    /\ IF vad_stream # 0
       THEN gen' = [gen EXCEPT ![vad_stream] = CloseGenerator(gen[vad_stream])]
       ELSE gen' = gen
    /\ vad_stream' = 0
    /\ cpc' = [cpc EXCEPT ![c] = "request"]
    /\ run_open' = FALSE
    /\ UNCHANGED <<thread, stop_event, current_tts, status, last_transcription,
                   last_translation, log_lines, wpc, wargs, segs, wtext, tts_stops,
                   cop, cthread, ctts, ccfg, ret, calls, launched>>
    /\ UNCHANGED <<evars, svars>>

\* lines 211-219
StopRequest(c) ==
    /\ cpc[c] = "request"
    /\ tts_stops' = IF Force(c) /\ ctts[c] # 0 THEN tts_stops \cup {ctts[c]} ELSE tts_stops
    /\ log_lines' = AppendLog(log_lines,
                           IF Force(c) THEN "Hard stop requested by user."
                           ELSE "Stop requested by user.")
    /\ cpc' = [cpc EXCEPT ![c] = "join"]
    /\ run_open' = FALSE
    /\ UNCHANGED <<thread, stop_event, vad_stream, current_tts, status,
                   last_transcription, last_translation, wpc, wargs, gen, segs,
                   wtext, cop, cthread, ctts, ccfg, ret, calls, launched>>
    /\ UNCHANGED <<evars, svars>>

\* a faulty variant of Joined: the join gives up on a thread that still runs
Joined_GivesUp(w) == TRUE

\* thread.join() returns once the thread has ended
Joined(w) == ~IsAlive(w)

\* lines 221-225: join(timeout=2.0), or the join() after it, returns with the
\* thread ended ...
StopJoin(c) ==
    /\ cpc[c] \in {"join", "join_forever"}
    /\ Joined(cthread[c])
    /\ cpc' = [cpc EXCEPT ![c] = "clear"]
    /\ run_open' = FALSE
    /\ UNCHANGED <<thread, stop_event, vad_stream, current_tts, status,
                   last_transcription, last_translation, log_lines, wpc, wargs, gen,
                   segs, wtext, tts_stops, cop, cthread, ctts, ccfg, ret, calls,
                   launched>>
    /\ UNCHANGED <<evars, svars>>

\* ... or the timeout passes with the thread still alive
StopJoinTimeout(c) ==
    /\ cpc[c] = "join"
    /\ IsAlive(cthread[c])
    /\ log_lines' = AppendLog(log_lines, "Background thread is taking longer to stop...")
    /\ cpc' = [cpc EXCEPT ![c] = "join_forever"]
    /\ run_open' = FALSE
    /\ UNCHANGED <<thread, stop_event, vad_stream, current_tts, status,
                   last_transcription, last_translation, wpc, wargs, gen, segs,
                   wtext, tts_stops, cop, cthread, ctts, ccfg, ret, calls, launched>>
    /\ UNCHANGED <<evars, svars>>

\* lines 227-228, under _thread_lock
StopClear(c) ==
    /\ cpc[c] = "clear"
    /\ thread' = 0
    /\ cpc' = [cpc EXCEPT ![c] = "finish"]
    /\ run_open' = FALSE
    /\ UNCHANGED <<stop_event, vad_stream, current_tts, status, last_transcription,
                   last_translation, log_lines, wpc, wargs, gen, segs, wtext,
                   tts_stops, cop, cthread, ctts, ccfg, ret, calls, launched>>
    /\ UNCHANGED <<evars, svars>>

\* lines 230-232; the locals go with the call
StopFinish(c) ==
    /\ cpc[c] = "finish"
    /\ log_lines' = AppendLog(log_lines, "Pipeline stopped.")
    /\ status' = "Stopped"
    /\ StopReturns(c, cop[c], "Stopped")
    /\ cthread' = [cthread EXCEPT ![c] = 0]
    /\ ctts' = [ctts EXCEPT ![c] = 0]
    /\ run_open' = FALSE
    /\ UNCHANGED <<thread, stop_event, vad_stream, current_tts, last_transcription,
                   last_translation, wpc, wargs, gen, segs, wtext, tts_stops, calls,
                   launched>>
    /\ UNCHANGED <<evars, svars>>

\* lines 358-359: the start() of restart_with()
RestartStart(c) ==
    /\ cpc[c] = "restart_start"
    /\ StartCall("restart_with", ccfg[c])
    /\ cpc' = [cpc EXCEPT ![c] = "idle"]
    /\ cop' = [cop EXCEPT ![c] = "none"]
    /\ ccfg' = [ccfg EXCEPT ![c] = NoConfig]
    /\ UNCHANGED <<vad_stream, current_tts, gen, segs, wtext, tts_stops, cthread,
                   ctts, calls>>
    /\ UNCHANGED <<evars, svars>>

(***************************************************************************)
(* snapshot(), lines 240-248: one critical section of _state_lock, the     *)
(* lock under which every write of the four fields is made (lines          *)
(* 324-345).  The text it returns is held as its entries, one per line.    *)
(***************************************************************************)
max_log_lines == 200

\* line 242: _log_lines[-_max_log_lines:]
LogText(log) ==
    IF Len(log) > max_log_lines
    THEN SubSeq(log, Len(log) - max_log_lines + 1, Len(log))
    ELSE log

\* a faulty variant of Snapshot: it drains the log it returns
Snapshot_Drains ==
    /\ snap' = [log |-> LogText(log_lines), transcription |-> last_transcription,
                translation |-> last_translation, status |-> status]
    /\ log_lines' = <<>>
    /\ UNCHANGED <<thread, stop_event, vad_stream, current_tts, status,
                   last_transcription, last_translation, wpc, wargs, gen, segs,
                   wtext, tts_stops, cpc, cop, cthread, ctts, ccfg, ret, calls,
                   launched, run_open>>
    /\ UNCHANGED <<evars, languages, lvars>>

Snapshot ==
    /\ snap' = [log |-> LogText(log_lines), transcription |-> last_transcription,
                translation |-> last_translation, status |-> status]
    /\ UNCHANGED cvars
    /\ UNCHANGED <<evars, languages, lvars>>

(***************************************************************************)
(* _run_pipeline(): the worker thread.  A state of wpc is a place where    *)
(* the thread can be while other threads run; "blocked", "stt",            *)
(* "translate" and "speak" are calls in flight.                            *)
(***************************************************************************)
\* what transcribe_chunk and translate_text return; "" stands for None too
Texts == {"", "hello"}
Translations == {"", "bonjour"}

\* faulty variants of NoTranscription and NoTranslation: the test is missing
NoTranscription_Never(text) == FALSE

NoTranslation_Never(translated) == FALSE

\* line 286: not text
NoTranscription(text) == text = ""

\* line 296: not translated
NoTranslation(translated) == translated = ""

WorkerFrame(w) ==
    /\ UNCHANGED <<wargs, tts_stops, cpc, cop, cthread, ctts, ccfg, ret, calls,
                   launched, run_open>>
    /\ UNCHANGED <<evars, svars>>

Goto(w, pc) == wpc' = [wpc EXCEPT ![w] = pc]

\* lines 258-269: the collaborators are built, the synthesizer is registered
WorkerInit(w) ==
    /\ wpc[w] = "init"
    /\ current_tts' = w
    /\ Goto(w, "ready")
    /\ WorkerFrame(w)
    /\ UNCHANGED <<thread, stop_event, vad_stream, status, last_transcription,
                   last_translation, log_lines, gen, segs, wtext>>

\* lines 271-276
WorkerReady(w) ==
    /\ wpc[w] = "ready"
    /\ log_lines' = AppendLog(log_lines, "Components initialized.")
    /\ status' = "Listening..."
    /\ Goto(w, "open")
    /\ WorkerFrame(w)
    /\ UNCHANGED <<thread, stop_event, vad_stream, current_tts, last_transcription,
                   last_translation, gen, segs, wtext>>

\* line 278: calling the generator function runs none of its body
WorkerOpenStream(w) ==
    /\ wpc[w] = "open"
    /\ vad_stream' = w
    /\ gen' = [gen EXCEPT ![w] = "created"]
    /\ Goto(w, "next")
    /\ WorkerFrame(w)
    /\ UNCHANGED <<thread, stop_event, current_tts, status, last_transcription,
                   last_translation, log_lines, segs, wtext>>

\* line 280: the for statement asks the generator for the next segment; a
\* closed generator ends the loop
WorkerNext(w) ==
    /\ wpc[w] = "next"
    /\ IF gen[w] = "closed"
       THEN Goto(w, "finally") /\ gen' = gen
       ELSE Goto(w, "blocked") /\ gen' = [gen EXCEPT ![w] = "running"]
    /\ WorkerFrame(w)
    /\ UNCHANGED <<thread, stop_event, vad_stream, current_tts, status,
                   last_transcription, last_translation, log_lines, segs, wtext>>

\* silero_vadhelper.py line 92: the engine yields a segment
EngineYieldWithin(w, n) ==
    /\ wpc[w] = "blocked"
    /\ segs[w] < n
    /\ gen' = [gen EXCEPT ![w] = "suspended"]
    /\ segs' = [segs EXCEPT ![w] = @ + 1]
    /\ Goto(w, "check_segment")
    /\ WorkerFrame(w)
    /\ UNCHANGED <<thread, stop_event, vad_stream, current_tts, status,
                   last_transcription, last_translation, log_lines, wtext>>

EngineYield(w) == EngineYieldWithin(w, MaxSegments)

\* a faulty variant of WorkerCheck: the flag is not sampled before the
\* synthesis
WorkerCheck_SegmentOnly(w) ==
    /\ wpc[w] \in {"check_segment", "check_speak"}
    /\ IF stop_event /\ wpc[w] = "check_segment"
       THEN Goto(w, "finally")
       ELSE Goto(w, IF wpc[w] = "check_segment" THEN "stt_begin" ELSE "speak_begin")
    /\ WorkerFrame(w)
    /\ UNCHANGED <<thread, stop_event, vad_stream, current_tts, status,
                   last_transcription, last_translation, log_lines, gen, segs, wtext>>

\* lines 281-282 and 304-305: the cancellation flag is sampled
WorkerCheck(w) ==
    /\ wpc[w] \in {"check_segment", "check_speak"}
    /\ IF stop_event
       THEN Goto(w, "finally")
       ELSE Goto(w, IF wpc[w] = "check_segment" THEN "stt_begin" ELSE "speak_begin")
    /\ WorkerFrame(w)
    /\ UNCHANGED <<thread, stop_event, vad_stream, current_tts, status,
                   last_transcription, last_translation, log_lines, gen, segs, wtext>>

\* a faulty variant of WorkerBegin: the call begins with the status as it was
WorkerBegin_KeepsStatus(w) ==
    /\ wpc[w] \in {"stt_begin", "speak_begin"}
    /\ Goto(w, IF wpc[w] = "stt_begin" THEN "stt" ELSE "speak")
    /\ WorkerFrame(w)
    /\ UNCHANGED <<thread, stop_event, vad_stream, current_tts, status,
                   last_transcription, last_translation, log_lines, gen, segs, wtext>>

\* lines 284-285 and 307-308: the status is set and the call begins
WorkerBegin(w) ==
    /\ wpc[w] \in {"stt_begin", "speak_begin"}
    /\ status' = IF wpc[w] = "stt_begin" THEN "Transcribing..." ELSE "Speaking..."
    /\ Goto(w, IF wpc[w] = "stt_begin" THEN "stt" ELSE "speak")
    /\ WorkerFrame(w)
    /\ UNCHANGED <<thread, stop_event, vad_stream, current_tts, last_transcription,
                   last_translation, log_lines, gen, segs, wtext>>

\* lines 285-294: transcribe_chunk returns one of texts
RecognizerGives(w, texts) ==
    /\ wpc[w] = "stt"
    /\ \E text \in texts :
          IF NoTranscription(text)
          THEN /\ log_lines' = AppendLog(log_lines, "No transcription returned.")
               /\ status' = "Listening..."
               /\ Goto(w, "next")
               /\ UNCHANGED <<last_transcription, wtext>>
          ELSE /\ last_transcription' = text
               /\ log_lines' = AppendLog(log_lines, "Recognized text: " \o text)
               /\ status' = "Translating..."
               /\ wtext' = [wtext EXCEPT ![w] = text]
               /\ Goto(w, "translate")
    /\ WorkerFrame(w)
    /\ UNCHANGED <<thread, stop_event, vad_stream, current_tts, last_translation,
                   gen, segs>>

RecognizerReturns(w) == RecognizerGives(w, Texts)

\* a faulty variant of TranslatorGives: an empty translation is recorded
TranslatorGives_RecordsEmpty(w, translations) ==
    /\ wpc[w] = "translate"
    /\ \E translated \in translations :
          IF NoTranslation(translated)
          THEN /\ log_lines' = AppendLog(log_lines, "Translation failed or empty.")
               /\ status' = "Listening..."
               /\ wtext' = [wtext EXCEPT ![w] = ""]
               /\ Goto(w, "next")
               /\ last_translation' = translated
          ELSE /\ last_translation' = translated
               /\ log_lines' = AppendLog(log_lines, "Translation: " \o translated)
               /\ wtext' = [wtext EXCEPT ![w] = translated]
               /\ Goto(w, "check_speak")
               /\ UNCHANGED status
    /\ WorkerFrame(w)
    /\ UNCHANGED <<thread, stop_event, vad_stream, current_tts, last_transcription,
                   gen, segs>>

\* lines 295-302: translate_text returns one of translations (it catches its
\* own failures)
TranslatorGives(w, translations) ==
    /\ wpc[w] = "translate"
    /\ \E translated \in translations :
          IF NoTranslation(translated)
          THEN /\ log_lines' = AppendLog(log_lines, "Translation failed or empty.")
               /\ status' = "Listening..."
               /\ wtext' = [wtext EXCEPT ![w] = ""]
               /\ Goto(w, "next")
               /\ UNCHANGED last_translation
          ELSE /\ last_translation' = translated
               /\ log_lines' = AppendLog(log_lines, "Translation: " \o translated)
               /\ wtext' = [wtext EXCEPT ![w] = translated]
               /\ Goto(w, "check_speak")
               /\ UNCHANGED status
    /\ WorkerFrame(w)
    /\ UNCHANGED <<thread, stop_event, vad_stream, current_tts, last_transcription,
                   gen, segs>>

TranslatorReturns(w) == TranslatorGives(w, Translations)

\* lines 308-310: speak returns
SynthesizerReturns(w) ==
    /\ wpc[w] = "speak"
    /\ log_lines' = AppendLog(log_lines, "TTS playback completed.")
    /\ status' = "Listening..."
    /\ wtext' = [wtext EXCEPT ![w] = ""]
    /\ Goto(w, "next")
    /\ WorkerFrame(w)
    /\ UNCHANGED <<thread, stop_event, vad_stream, current_tts, last_transcription,
                   last_translation, gen, segs>>

\* an exception leaves the try block: a collaborator's constructor, the audio
\* stream, transcribe_chunk or speak raises
WorkerRaises(w) ==
    /\ wpc[w] \in {"init", "blocked", "stt", "speak"}
    /\ gen' = IF wpc[w] = "blocked" THEN [gen EXCEPT ![w] = "closed"] ELSE gen
    /\ Goto(w, "except")
    /\ WorkerFrame(w)
    /\ UNCHANGED <<thread, stop_event, vad_stream, current_tts, status,
                   last_transcription, last_translation, log_lines, segs, wtext>>

\* lines 312-314
WorkerExcept(w) ==
    /\ wpc[w] = "except"
    /\ log_lines' = AppendLog(log_lines, "Pipeline error")
    /\ status' = "Error"
    /\ Goto(w, "finally")
    /\ WorkerFrame(w)
    /\ UNCHANGED <<thread, stop_event, vad_stream, current_tts, last_transcription,
                   last_translation, gen, segs, wtext>>

\* lines 315-318
WorkerFinally(w) ==
    /\ wpc[w] = "finally"
    /\ stop_event' = FALSE
    /\ vad_stream' = 0
    /\ status' = "Stopped"
    /\ Goto(w, "release")
    /\ WorkerFrame(w)
    /\ UNCHANGED <<thread, current_tts, last_transcription, last_translation,
                   log_lines, gen, segs, wtext>>

\* a faulty variant of WorkerRelease: the handle is left on the thread that
\* ends
WorkerRelease_KeepsHandle(w) ==
    /\ wpc[w] = "release"
    /\ current_tts' = 0
    /\ Goto(w, "dead")
    /\ wargs' = [wargs EXCEPT ![w] = NoArgs]
    /\ gen' = [gen EXCEPT ![w] = "none"]
    /\ segs' = [segs EXCEPT ![w] = 0]
    /\ wtext' = [wtext EXCEPT ![w] = ""]
    /\ tts_stops' = tts_stops \ {w}
    /\ UNCHANGED <<thread, stop_event, vad_stream, status, last_transcription,
                   last_translation, log_lines, cpc, cop, cthread, ctts, ccfg, ret,
                   calls, launched, run_open>>
    /\ UNCHANGED <<evars, svars>>

\* lines 319-322, under _thread_lock; the thread ends, and its arguments,
\* locals, engine and synthesizer go with it
WorkerRelease(w) ==
    /\ wpc[w] = "release"
    /\ current_tts' = 0
    /\ thread' = IF thread = w THEN 0 ELSE thread
    /\ Goto(w, "dead")
    /\ wargs' = [wargs EXCEPT ![w] = NoArgs]
    /\ gen' = [gen EXCEPT ![w] = "none"]
    /\ segs' = [segs EXCEPT ![w] = 0]
    /\ wtext' = [wtext EXCEPT ![w] = ""]
    /\ tts_stops' = tts_stops \ {w}
    /\ UNCHANGED <<stop_event, vad_stream, status, last_transcription,
                   last_translation, log_lines, cpc, cop, cthread, ctts, ccfg, ret,
                   calls, launched, run_open>>
    /\ UNCHANGED <<evars, svars>>

(***************************************************************************)
(* SileroVADHelper: the segmentation engine.                               *)
(*                                                                         *)
(* A sample is named by its position in the stream, and an array of        *)
(* samples (numpy array, tensor) is held as its runs of consecutive        *)
(* samples, <<[lo, n], ...>>: lo the first sample of a run and n its       *)
(* length.  Times are in milliseconds, probabilities in hundredths.        *)
(***************************************************************************)
frame_size == 512

DefaultSampleRate == 16000
DefaultThreshold == 60
DefaultSilenceMs == 3000
DefaultMinChunkMs == 500

RECURSIVE ArrLen(_)
ArrLen(a) == IF a = <<>> THEN 0 ELSE a[1].n + ArrLen(Tail(a))

\* np.concatenate((a, b))
Concat(a, b) ==
    IF a = <<>> THEN b
    ELSE IF b = <<>> THEN a
    ELSE LET l == a[Len(a)]
             f == b[1]
         IN  IF l.lo + l.n = f.lo
             THEN SubSeq(a, 1, Len(a) - 1) \o <<[lo |-> l.lo, n |-> l.n + f.n]>> \o Tail(b)
             ELSE a \o b

\* a[:k]
RECURSIVE TakeArr(_, _)
TakeArr(a, k) ==
    IF k = 0 \/ a = <<>> THEN <<>>
    ELSE IF a[1].n <= k THEN Concat(<<a[1]>>, TakeArr(Tail(a), k - a[1].n))
    ELSE <<[lo |-> a[1].lo, n |-> k]>>

\* a[k:]
RECURSIVE DropArr(_, _)
DropArr(a, k) ==
    IF k = 0 \/ a = <<>> THEN a
    ELSE IF a[1].n <= k THEN DropArr(Tail(a), k - a[1].n)
    ELSE <<[lo |-> a[1].lo + k, n |-> a[1].n - k]>> \o Tail(a)

\* torch.cat(frames[i .. j]), by halves
RECURSIVE CatRange(_, _, _)
CatRange(frames, i, j) ==
    IF i > j THEN <<>>
    ELSE IF i = j THEN frames[i]
    ELSE LET m == (i + j) \div 2
         IN  Concat(CatRange(frames, i, m), CatRange(frames, m + 1, j))

\* torch.cat(frames)
CatAll(frames) == CatRange(frames, 1, Len(frames))

\* the block of n samples that follows the first k samples of the stream
Block(k, n) == <<[lo |-> k, n |-> n]>>

NoScenario == [speech |-> 0, silence |-> 0]

NoFrame == [chunk |-> <<>>, prob |-> 0, outcome |-> "none", at |-> 0]

\* __init__, lines 16-40
EngineInit(params) ==
    /\ vad = params
    /\ audio_queue = <<>>
    /\ rolling_buffer = <<>>
    /\ speech_active = FALSE
    /\ speech_buffer = <<>>
    /\ last_speech_time = 0
    /\ now = 0
    /\ emitted = <<>>
    /\ fed = 0
    /\ discarded = <<>>
    /\ above = <<>>
    /\ loudest = 0
    /\ last_frame = NoFrame
    /\ phase = "callback"
    /\ scenario = NoScenario

DefaultParams ==
    [sample_rate |-> DefaultSampleRate, threshold |-> DefaultThreshold,
     silence_duration |-> DefaultSilenceMs, min_chunk_sec |-> DefaultMinChunkMs]

\* line 45, run by the audio subsystem's thread
AudioCallback(n) ==
    /\ audio_queue' = Append(audio_queue, Block(fed, n))
    /\ fed' = fed + n
    /\ UNCHANGED <<vad, rolling_buffer, speech_active, speech_buffer,
                   last_speech_time, now, emitted, discarded, above, loudest,
                   last_frame>>

\* the clock advances by d milliseconds
Tick(d) ==
    /\ now' = now + d
    /\ UNCHANGED <<vad, audio_queue, rolling_buffer, speech_active, speech_buffer,
                   last_speech_time, emitted, fed, discarded, above, loudest,
                   last_frame>>

\* a faulty variant of Poll: the newest block is taken from the queue
Poll_Newest ==
    /\ ArrLen(rolling_buffer) < frame_size
    /\ audio_queue # <<>>
    /\ rolling_buffer' = Concat(rolling_buffer, audio_queue[Len(audio_queue)])
    /\ audio_queue' = SubSeq(audio_queue, 1, Len(audio_queue) - 1)
    /\ UNCHANGED <<vad, speech_active, speech_buffer, last_speech_time, now,
                   emitted, fed, discarded, above, loudest, last_frame>>

\* lines 57-59, reached when the inner loop has left less than a frame
Poll ==
    /\ ArrLen(rolling_buffer) < frame_size
    /\ audio_queue # <<>>
    /\ rolling_buffer' = Concat(rolling_buffer, Head(audio_queue))
    /\ audio_queue' = Tail(audio_queue)
    /\ UNCHANGED <<vad, speech_active, speech_buffer, last_speech_time, now,
                   emitted, fed, discarded, above, loudest, last_frame>>

\* a faulty variant of IsSpeech: a frame at the threshold counts as speech
IsSpeech_AtLeast(prob) == prob >= vad.threshold

\* line 73
IsSpeech(prob) == prob > vad.threshold

\* a faulty variant of SilenceElapsed: it waits for twice the duration
SilenceElapsed_Twice == now - last_speech_time > 2 * vad.silence_duration

\* line 82
SilenceElapsed == now - last_speech_time > vad.silence_duration

\* faulty variants of TooShort: no candidate is too short; the minimum is
\* taken in milliseconds where the count is in seconds
TooShort_Never(full) == FALSE

TooShort_Millis(full) == ArrLen(full) < vad.sample_rate * vad.min_chunk_sec

\* line 89: numel() < sample_rate * min_chunk_sec
TooShort(full) == ArrLen(full) * 1000 < vad.sample_rate * vad.min_chunk_sec

\* the record of a frame that went through the classifier
Seen(chunk, prob, outcome) ==
    [chunk |-> chunk, prob |-> prob, outcome |-> outcome, at |-> now]

\* a faulty variant of Finalize: the buffer is not emptied (line 86 missing)
Finalize_KeepsBuffer(chunk, prob) ==
    LET full == CatAll(speech_buffer)
    IN  /\ speech_active' = FALSE
        /\ speech_buffer' = speech_buffer
        /\ IF TooShort(full)
           THEN /\ discarded' = Append(discarded, full)
                /\ last_frame' = Seen(chunk, prob, "discarded")
                /\ UNCHANGED emitted
           ELSE /\ emitted' = Append(emitted, full)
                /\ last_frame' = Seen(chunk, prob, "emitted")
                /\ UNCHANGED discarded
        /\ UNCHANGED last_speech_time

\* a faulty variant of Finalize: the engine stays active (line 85 missing)
Finalize_StaysActive(chunk, prob) ==
    LET full == CatAll(speech_buffer)
    IN  /\ speech_active' = speech_active
        /\ speech_buffer' = <<>>
        /\ IF TooShort(full)
           THEN /\ discarded' = Append(discarded, full)
                /\ last_frame' = Seen(chunk, prob, "discarded")
                /\ UNCHANGED emitted
           ELSE /\ emitted' = Append(emitted, full)
                /\ last_frame' = Seen(chunk, prob, "emitted")
                /\ UNCHANGED discarded
        /\ UNCHANGED last_speech_time

\* lines 83-92: the candidate is cut, then dropped or yielded
Finalize(chunk, prob) ==
    LET full == CatAll(speech_buffer)
    IN  /\ speech_active' = FALSE
        /\ speech_buffer' = <<>>
        /\ IF TooShort(full)
           THEN /\ discarded' = Append(discarded, full)
                /\ last_frame' = Seen(chunk, prob, "discarded")
                /\ UNCHANGED emitted
           ELSE /\ emitted' = Append(emitted, full)
                /\ last_frame' = Seen(chunk, prob, "emitted")
                /\ UNCHANGED discarded
        /\ UNCHANGED last_speech_time

\* a faulty variant of ProcessFrame: a frame whose inference raised goes on
\* as a frame below the threshold (the continue of line 70 is missing)
ProcessFrame_FailureIsSilence(prob, failed) ==
    /\ ArrLen(rolling_buffer) >= frame_size
    /\ LET chunk == TakeArr(rolling_buffer, frame_size)
       IN  /\ rolling_buffer' = DropArr(rolling_buffer, frame_size)
           /\ above' = IF ~failed /\ prob > vad.threshold THEN Concat(above, chunk) ELSE above
           /\ loudest' = IF ~failed /\ prob > loudest THEN prob ELSE loudest
           /\ IF ~failed /\ IsSpeech(prob)
              THEN /\ speech_buffer' =
                          Append(IF speech_active THEN speech_buffer ELSE <<>>, chunk)
                   /\ speech_active' = TRUE
                   /\ last_speech_time' = now
                   /\ last_frame' = Seen(chunk, prob, "speech")
                   /\ UNCHANGED <<emitted, discarded>>
              ELSE IF speech_active /\ SilenceElapsed
              THEN IF failed
                   THEN LET full == CatAll(speech_buffer)
                        IN  /\ speech_active' = FALSE
                            /\ speech_buffer' = <<>>
                            /\ IF TooShort(full)
                               THEN discarded' = Append(discarded, full) /\ UNCHANGED emitted
                               ELSE emitted' = Append(emitted, full) /\ UNCHANGED discarded
                            /\ last_frame' = Seen(chunk, prob, "failed")
                            /\ UNCHANGED last_speech_time
                   ELSE Finalize(chunk, prob)
              ELSE /\ last_frame' = Seen(chunk, prob, IF failed THEN "failed" ELSE "silence")
                   /\ UNCHANGED <<speech_active, speech_buffer, last_speech_time,
                                  emitted, discarded>>
    /\ UNCHANGED <<vad, audio_queue, now, fed>>

\* a faulty variant of ProcessFrame: every frame above the threshold starts a
\* new utterance (the test of line 74 is missing)
ProcessFrame_NewSegment(prob, failed) ==
    /\ ArrLen(rolling_buffer) >= frame_size
    /\ LET chunk == TakeArr(rolling_buffer, frame_size)
       IN  /\ rolling_buffer' = DropArr(rolling_buffer, frame_size)
           /\ above' = IF ~failed /\ prob > vad.threshold THEN Concat(above, chunk) ELSE above
           /\ loudest' = IF ~failed /\ prob > loudest THEN prob ELSE loudest
           /\ IF failed
              THEN /\ last_frame' = Seen(chunk, prob, "failed")
                   /\ UNCHANGED <<speech_active, speech_buffer, last_speech_time,
                                  emitted, discarded>>
              ELSE IF IsSpeech(prob)
              THEN /\ speech_buffer' = <<chunk>>
                   /\ speech_active' = TRUE
                   /\ last_speech_time' = now
                   /\ last_frame' = Seen(chunk, prob, "speech")
                   /\ UNCHANGED <<emitted, discarded>>
              ELSE IF speech_active /\ SilenceElapsed
              THEN Finalize(chunk, prob)
              ELSE /\ last_frame' = Seen(chunk, prob, "silence")
                   /\ UNCHANGED <<speech_active, speech_buffer, last_speech_time,
                                  emitted, discarded>>
    /\ UNCHANGED <<vad, audio_queue, now, fed>>

\* a faulty variant of ProcessFrame: a frame at or below the threshold that
\* falls inside an utterance is kept in the buffer
ProcessFrame_KeepsPauses(prob, failed) ==
    /\ ArrLen(rolling_buffer) >= frame_size
    /\ LET chunk == TakeArr(rolling_buffer, frame_size)
       IN  /\ rolling_buffer' = DropArr(rolling_buffer, frame_size)
           /\ above' = IF ~failed /\ prob > vad.threshold THEN Concat(above, chunk) ELSE above
           /\ loudest' = IF ~failed /\ prob > loudest THEN prob ELSE loudest
           /\ IF failed
              THEN /\ last_frame' = Seen(chunk, prob, "failed")
                   /\ UNCHANGED <<speech_active, speech_buffer, last_speech_time,
                                  emitted, discarded>>
              ELSE IF IsSpeech(prob)
              THEN /\ speech_buffer' =
                          Append(IF speech_active THEN speech_buffer ELSE <<>>, chunk)
                   /\ speech_active' = TRUE
                   /\ last_speech_time' = now
                   /\ last_frame' = Seen(chunk, prob, "speech")
                   /\ UNCHANGED <<emitted, discarded>>
              ELSE IF speech_active /\ SilenceElapsed
              THEN Finalize(chunk, prob)
              ELSE /\ last_frame' = Seen(chunk, prob, "silence")
                   /\ speech_buffer' =
                          IF speech_active THEN Append(speech_buffer, chunk)
                          ELSE speech_buffer
                   /\ UNCHANGED <<speech_active, last_speech_time, emitted, discarded>>
    /\ UNCHANGED <<vad, audio_queue, now, fed>>

\* lines 61-92: one pass of the inner loop; prob is what the model returns
\* for the frame, failed tells that it raised instead
ProcessFrame(prob, failed) ==
    /\ ArrLen(rolling_buffer) >= frame_size
    /\ LET chunk == TakeArr(rolling_buffer, frame_size)
       IN  /\ rolling_buffer' = DropArr(rolling_buffer, frame_size)
           /\ above' = IF ~failed /\ prob > vad.threshold THEN Concat(above, chunk) ELSE above
           /\ loudest' = IF ~failed /\ prob > loudest THEN prob ELSE loudest
           /\ IF failed
              THEN /\ last_frame' = Seen(chunk, prob, "failed")
                   /\ UNCHANGED <<speech_active, speech_buffer, last_speech_time,
                                  emitted, discarded>>
              ELSE IF IsSpeech(prob)
              THEN /\ speech_buffer' =
                          Append(IF speech_active THEN speech_buffer ELSE <<>>, chunk)
                   /\ speech_active' = TRUE
                   /\ last_speech_time' = now
                   /\ last_frame' = Seen(chunk, prob, "speech")
                   /\ UNCHANGED <<emitted, discarded>>
              ELSE IF speech_active /\ SilenceElapsed
              THEN Finalize(chunk, prob)
              ELSE /\ last_frame' = Seen(chunk, prob, "silence")
                   /\ UNCHANGED <<speech_active, speech_buffer, last_speech_time,
                                  emitted, discarded>>
    /\ UNCHANGED <<vad, audio_queue, now, fed>>

(***************************************************************************)
(* The controller's specification.                                         *)
(***************************************************************************)
CallerStep(c) ==
    \/ StopClose(c)
    \/ StopRequest(c)
    \/ StopJoin(c)
    \/ StopJoinTimeout(c)
    \/ StopClear(c)
    \/ StopFinish(c)
    \/ RestartStart(c)

\* the steps a worker takes by itself once scheduled, and the returns of the
\* collaborator calls in flight
WorkerStep(w) ==
    \/ WorkerInit(w)
    \/ WorkerReady(w)
    \/ WorkerOpenStream(w)
    \/ WorkerNext(w)
    \/ WorkerCheck(w)
    \/ WorkerBegin(w)
    \/ RecognizerReturns(w)
    \/ TranslatorReturns(w)
    \/ SynthesizerReturns(w)
    \/ WorkerExcept(w)
    \/ WorkerFinally(w)
    \/ WorkerRelease(w)

Next ==
    \/ Start
    \/ \E c \in Stoppers : Stop(c)
    \/ \E c \in Stoppers : HardStop(c)
    \/ \E c \in Stoppers : RestartWith(c)
    \/ \E c \in Stoppers : CallerStep(c)
    \/ \E w \in Workers : WorkerStep(w)
    \/ \E w \in Workers : EngineYield(w)
    \/ \E w \in Workers : WorkerRaises(w)

Init == ControllerInit /\ AppInit /\ EngineInit(DefaultParams)

Spec == Init /\ [][Next]_vars

\* every thread that can run is eventually scheduled and every collaborator
\* call in flight returns; speech arriving (EngineYield) and failures
\* (WorkerRaises) are up to the environment
FairSpec ==
    /\ Init
    /\ [][Next]_vars
    /\ \A c \in Stoppers : WF_vars(CallerStep(c))
    /\ \A w \in Workers : WF_vars(WorkerStep(w))

(***************************************************************************)
(* The engine alone: any blocks from the audio callback, any frame         *)
(* classification, and a clock that advances second by second, so that a   *)
(* silence can last less than, exactly, or more than the silence duration. *)
(***************************************************************************)
MaxBlocks == 5
MaxTicks == 8

\* the clock is read to the second
TickMs == DefaultSilenceMs \div 3

BlockSizes == {512, 768}
Probabilities == {50, 60, 70}

\* an engine that drops candidates of less than two frames
VADParams ==
    {[sample_rate |-> DefaultSampleRate, threshold |-> DefaultThreshold,
      silence_duration |-> DefaultSilenceMs, min_chunk_sec |-> 50]}

VADFrame == UNCHANGED <<cvars, svars, scenario, phase>>

VADCallback ==
    /\ \E n \in BlockSizes : fed + n <= MaxBlocks * frame_size /\ AudioCallback(n)
    /\ VADFrame

VADTick ==
    /\ now + TickMs <= MaxTicks * TickMs
    /\ Tick(TickMs)
    /\ VADFrame

VADPoll == Poll /\ VADFrame

VADClassify == (\E prob \in Probabilities : ProcessFrame(prob, FALSE)) /\ VADFrame

VADInferenceFails == ProcessFrame(0, TRUE) /\ VADFrame

InitVAD == ControllerInit /\ AppInit /\ \E params \in VADParams : EngineInit(params)

NextVAD ==
    \/ VADCallback
    \/ VADTick
    \/ VADPoll
    \/ VADClassify
    \/ VADInferenceFails

SpecVAD == InitVAD /\ [][NextVAD]_vars

(***************************************************************************)
(* The engine with its default parameters, fed in real time: every 32 ms   *)
(* (512 samples at 16000 Hz) the callback delivers one frame, which is     *)
(* classified at once.  The first scenario.speech frames are above the     *)
(* threshold, the scenario.silence frames after them below it.             *)
(***************************************************************************)
\* milliseconds of audio in a frame
FrameMs == (frame_size * 1000) \div DefaultSampleRate

\* 2.0 s and 0.2 s of speech, 3.5 s of silence, in whole frames
Scenarios ==
    [speech : {62, 63, 6, 7}, silence : {109, 110}]

ScenarioFrames == scenario.speech + scenario.silence

FramesFed == fed \div frame_size

ScenarioCallback ==
    /\ phase = "callback"
    /\ FramesFed < ScenarioFrames
    /\ AudioCallback(frame_size)
    /\ phase' = "tick"
    /\ UNCHANGED <<cvars, svars, scenario>>

ScenarioTick ==
    /\ phase = "tick"
    /\ Tick(FrameMs)
    /\ phase' = "poll"
    /\ UNCHANGED <<cvars, svars, scenario>>

ScenarioPoll ==
    /\ phase = "poll"
    /\ Poll
    /\ phase' = "frame"
    /\ UNCHANGED <<cvars, svars, scenario>>

ScenarioClassify ==
    /\ phase = "frame"
    /\ ProcessFrame(IF FramesFed <= scenario.speech THEN 70 ELSE 50, FALSE)
    /\ phase' = "callback"
    /\ UNCHANGED <<cvars, svars, scenario>>

ScenarioDone == phase = "callback" /\ FramesFed = ScenarioFrames

InitScenario ==
    /\ ControllerInit
    /\ AppInit
    /\ vad = DefaultParams
    /\ audio_queue = <<>>
    /\ rolling_buffer = <<>>
    /\ speech_active = FALSE
    /\ speech_buffer = <<>>
    /\ last_speech_time = 0
    /\ now = 0
    /\ emitted = <<>>
    /\ fed = 0
    /\ discarded = <<>>
    /\ above = <<>>
    /\ loudest = 0
    /\ last_frame = NoFrame
    /\ phase = "callback"
    /\ scenario \in Scenarios

NextScenario ==
    \/ ScenarioCallback
    \/ ScenarioTick
    \/ ScenarioPoll
    \/ ScenarioClassify

SpecScenario == InitScenario /\ [][NextScenario]_vars

(***************************************************************************)
(* start() with every kind of argument, on the application's catalog and   *)
(* on one with a language that has no voice, amid stop() and the workers.  *)
(***************************************************************************)
AllConfigs ==
    [source_lang : {"en", "xx"}, target_lang : {"fr", "de", "xx"},
     voice_name : {"fr-B", "en-A", "zz"}, silence_seconds : {2, 30}]

StartAny == \E cfg \in AllConfigs : StartWith(cfg)

InitStart ==
    /\ ControllerInit
    /\ languages \in {BuiltCatalog, SparseCatalog}
    /\ snap = NoSnap
    /\ LocksInit
    /\ EngineInit(DefaultParams)

\* _stop_pipeline() past its entry
StopStep(c) ==
    \/ StopClose(c)
    \/ StopRequest(c)
    \/ StopJoin(c)
    \/ StopJoinTimeout(c)
    \/ StopClear(c)
    \/ StopFinish(c)

NextStart ==
    \/ StartAny
    \/ \E c \in Stoppers : Stop(c)
    \/ \E c \in Stoppers : StopStep(c)
    \/ \E w \in Workers : WorkerStep(w)
    \/ \E w \in Workers : EngineYield(w)
    \/ \E w \in Workers : WorkerRaises(w)

SpecStart == InitStart /\ [][NextStart]_vars

(***************************************************************************)
(* The controller polled by snapshot() at any moment.                      *)
(***************************************************************************)
MaxObservedCalls == 2

Observed == calls' <= MaxObservedCalls

NextSnapshot ==
    \/ Snapshot
    \/ Start /\ Observed
    \/ \E c \in Stoppers : Stop(c) /\ Observed
    \/ \E c \in Stoppers : HardStop(c) /\ Observed
    \/ \E c \in Stoppers : RestartWith(c) /\ Observed
    \/ \E c \in Stoppers : CallerStep(c)
    \/ \E w \in Workers : WorkerStep(w)
    \/ \E w \in Workers : EngineYield(w)
    \/ \E w \in Workers : WorkerRaises(w)

SpecSnapshot == Init /\ [][NextSnapshot]_vars

(***************************************************************************)
(* One run in which the recognizer finds no text in any segment, polled    *)
(* by snapshot(): the log grows by one entry per segment.                  *)
(***************************************************************************)
MaxLogLines == 202

\* lines 280-289 as one step: the engine yields a segment to the waiting
\* worker, the flag is clear, transcribe_chunk returns nothing, and the
\* worker waits for the next segment
WorkerSkipsSegment(w) ==
    /\ wpc[w] = "blocked"
    /\ ~stop_event
    /\ Len(log_lines) < MaxLogLines
    /\ log_lines' = AppendLog(log_lines, "No transcription returned.")
    /\ status' = "Listening..."
    /\ UNCHANGED <<thread, stop_event, vad_stream, current_tts, last_transcription,
                   last_translation, wpc, gen, segs, wtext>>
    /\ WorkerFrame(w)

NextLog ==
    \/ Start /\ calls' <= 1
    \/ \E w \in Workers : WorkerInit(w)
    \/ \E w \in Workers : WorkerReady(w)
    \/ \E w \in Workers : WorkerOpenStream(w)
    \/ \E w \in Workers : WorkerNext(w)
    \/ \E w \in Workers : WorkerSkipsSegment(w)
    \/ Snapshot

SpecLog == Init /\ [][NextLog]_vars

(***************************************************************************)
(* The locks.  Each method is the sequence of its lock operations and of   *)
(* the places where it can wait: "T+" and "T-" take and release            *)
(* _thread_lock, "S+" and "S-" _state_lock, "call" is a call that blocks   *)
(* (a collaborator, the engine's next segment), "join" thread.join(),      *)
(* "join2s" thread.join(timeout=2.0), "spawn" thread.start(), "close" the  *)
(* close of the generator.                                                 *)
(***************************************************************************)
\* lines 324-345: _append_log, _record_transcription, _record_translation,
\* _set_status and _reset_state hold _state_lock for one statement block
Section == <<"S+", "S-">>

\* lines 143-145
StartRunning == <<"T+", "T-">>

\* lines 143-152
StartInvalid == <<"T+">> \o Section \o Section \o <<"T-">>

\* lines 143-190
StartLaunch == <<"T+">> \o Section \o Section \o Section \o <<"spawn", "T-">>

\* lines 193-197
StopNothing == <<"T+">> \o Section \o <<"T-">>

\* a faulty variant of StopRunning: the status is being set while the
\* thread is joined
StopRunning_JoinsLocked ==
    <<"T+">> \o Section \o <<"T-", "close">> \o Section
        \o <<"join2s">> \o <<"S+", "join", "S-">> \o <<"T+", "T-">> \o Section \o Section

\* a faulty variant of StopRunning: _thread_lock is kept from line 193 to
\* line 228, over the joins
StopRunning_HoldsLifecycle ==
    <<"T+">> \o Section \o <<"close">> \o Section
        \o <<"join2s">> \o Section \o <<"join">> \o <<"T-">> \o Section \o Section

\* lines 193-232
StopRunning ==
    <<"T+">> \o Section \o <<"T-", "close">> \o Section
        \o <<"join2s">> \o Section \o <<"join">> \o <<"T+", "T-">> \o Section \o Section

\* lines 257-322: the constructors, one segment through the three
\* collaborators, then the end of the loop
RunPipeline ==
    <<"call", "T+", "T-">> \o Section \o Section
        \o <<"call">> \o Section \o <<"call">> \o Section \o Section \o Section
        \o <<"call">> \o Section \o Section \o Section
        \o <<"call">> \o Section \o Section
        \o <<"call">> \o Section \o Section \o Section \o <<"T+", "T-">>

\* lines 241-248
SnapshotPath == Section

Script(p) ==
    CASE p = "start_running" -> StartRunning
      [] p = "start_invalid" -> StartInvalid
      [] p = "start_launch" -> StartLaunch
      [] p = "stop_nothing" -> StopNothing
      [] p = "stop_running" -> StopRunning
      [] p = "run" -> RunPipeline
      [] p = "snapshot" -> SnapshotPath
      [] OTHER -> <<"T+">>

\* the operation thread t is about to do, "none" past the end of its path
Op(t) ==
    IF lpc[t] \in 1 .. Len(Script(path[t])) THEN Script(path[t])[lpc[t]] ELSE "none"

Advance(t) == lpc' = [lpc EXCEPT ![t] = @ + 1]

\* thread.is_alive() of the worker
WorkerAlive == Op("worker") # "none"

\* lines 144 and 195: what a caller finds once it holds _thread_lock
Paths(t) ==
    IF path[t] = "start"
    THEN IF WorkerAlive THEN {"start_running"}
         ELSE IF lpc["worker"] = 0 THEN {"start_invalid", "start_launch"}
         ELSE {"start_invalid"}
    ELSE IF path[t] = "stop"
    THEN IF WorkerAlive THEN {"stop_running"} ELSE {"stop_nothing"}
    ELSE {path[t]}

LockFrame == UNCHANGED <<cvars, evars, languages, snap>>

Acquire(t) ==
    /\ \/ /\ Op(t) = "T+"
          /\ thread_lock = "free"
          /\ thread_lock' = t
          /\ \E p \in Paths(t) : path' = [path EXCEPT ![t] = p]
          /\ UNCHANGED state_lock
       \/ /\ Op(t) = "S+"
          /\ state_lock = "free"
          /\ state_lock' = t
          /\ UNCHANGED <<thread_lock, path>>
    /\ Advance(t)
    /\ LockFrame

Release(t) ==
    /\ \/ Op(t) = "T-" /\ thread_lock' = "free" /\ UNCHANGED state_lock
       \/ Op(t) = "S-" /\ state_lock' = "free" /\ UNCHANGED thread_lock
    /\ Advance(t)
    /\ UNCHANGED path
    /\ LockFrame

\* line 189
Spawn(t) ==
    /\ Op(t) = "spawn"
    /\ lpc' = [lpc EXCEPT ![t] = @ + 1, !["worker"] = 1]
    /\ UNCHANGED <<thread_lock, state_lock, path>>
    /\ LockFrame

\* a blocking call returns, or raises
CallReturns(t) ==
    /\ Op(t) = "call"
    /\ Advance(t)
    /\ UNCHANGED <<thread_lock, state_lock, path>>
    /\ LockFrame

\* lines 205 and 222: neither waits for longer than two seconds
Passes(t) ==
    /\ Op(t) \in {"close", "join2s"}
    /\ Advance(t)
    /\ UNCHANGED <<thread_lock, state_lock, path>>
    /\ LockFrame

\* line 225
JoinReturns(t) ==
    /\ Op(t) = "join"
    /\ ~WorkerAlive
    /\ Advance(t)
    /\ UNCHANGED <<thread_lock, state_lock, path>>
    /\ LockFrame

\* the front end polls again
PollAgain ==
    /\ Op("poller") = "none"
    /\ lpc' = [lpc EXCEPT !["poller"] = 1]
    /\ UNCHANGED <<thread_lock, state_lock, path>>
    /\ LockFrame

NextLocks ==
    \/ \E t \in LockThreads : Acquire(t)
    \/ \E t \in LockThreads : Release(t)
    \/ \E t \in LockThreads : Spawn(t)
    \/ \E t \in LockThreads : CallReturns(t)
    \/ \E t \in LockThreads : Passes(t)
    \/ \E t \in LockThreads : JoinReturns(t)
    \/ PollAgain

SpecLocks == Init /\ [][NextLocks]_vars

\* a thread that can take a step takes it; a blocking call need not return
FairSpecLocks ==
    /\ SpecLocks
    /\ \A t \in LockThreads :
          /\ WF_vars(Acquire(t))
          /\ WF_vars(Release(t))
          /\ WF_vars(Spawn(t))
          /\ WF_vars(Passes(t))
          /\ WF_vars(JoinReturns(t))

\* the same, and a thread that waits for a lock which is free again and
\* again gets it: between two calls of snapshot() the observer sleeps
LiveSpecLocks ==
    /\ SpecLocks
    /\ \A t \in LockThreads :
          /\ SF_vars(Acquire(t))
          /\ WF_vars(Release(t))
          /\ WF_vars(Spawn(t))
          /\ WF_vars(Passes(t))
          /\ WF_vars(JoinReturns(t))


(***************************************************************************)
(* The controller driven by one caller: a call is made once the call       *)
(* before it has returned.  The workers run as before.                     *)
(***************************************************************************)
\* no thread is inside stop(), hard_stop() or restart_with()
CallerIdle == \A c \in Stoppers : cpc[c] = "idle"

RestartAny(c) == \E cfg \in AllConfigs : RestartCall(c, cfg)

NextSerial ==
    \/ CallerIdle /\ StartAny
    \/ CallerIdle /\ \E c \in Stoppers : Stop(c)
    \/ CallerIdle /\ \E c \in Stoppers : HardStop(c)
    \/ CallerIdle /\ \E c \in Stoppers : RestartAny(c)
    \/ \E c \in Stoppers : CallerStep(c)
    \/ \E w \in Workers : WorkerStep(w)
    \/ \E w \in Workers : EngineYield(w)
    \/ \E w \in Workers : WorkerRaises(w)

SpecSerial == Init /\ [][NextSerial]_vars

(***************************************************************************)
(* start() statement by statement.  A start() that launches a worker holds *)
(* _thread_lock from line 143 to its return, but the log, the status and   *)
(* the latest texts are guarded by _state_lock alone: between two of its   *)
(* statements any thread that needs no _thread_lock can run.  The thread   *)
(* inside start() takes a place among the callers, cop "start".            *)
(***************************************************************************)
\* a start() is between line 168 and its return: _thread_lock is held
StartInProgress == \E c \in Stoppers : cpc[c] \in {"start_log", "start_status", "start_launch"}

\* start() returns at line 145, 152 or raises at line 158
StartRefused(cfg) ==
    /\ AlreadyRunning \/ InvalidLanguage(cfg) \/ NoVoice(cfg)
    /\ StartWith(cfg)

\* lines 143-168: nothing runs, the configuration is accepted, _reset_state
StartEnter(c, cfg) ==
    /\ Free(c)
    /\ calls < MaxCalls
    /\ ~AlreadyRunning
    /\ ~InvalidLanguage(cfg)
    /\ ~NoVoice(cfg)
    /\ calls' = calls + 1
    /\ log_lines' = ResetLog
    /\ last_transcription' = ""
    /\ last_translation' = ""
    /\ status' = "Stopped"
    /\ cpc' = [cpc EXCEPT ![c] = "start_log"]
    /\ cop' = [cop EXCEPT ![c] = "start"]
    /\ ccfg' = [ccfg EXCEPT ![c] = cfg]
    /\ UNCHANGED <<thread, stop_event, vad_stream, current_tts, wpc, wargs, gen, segs,
                   wtext, tts_stops, cthread, ctts, ret, launched, run_open>>
    /\ UNCHANGED <<evars, svars>>

\* lines 169-175
StartLog(c) ==
    /\ cpc[c] = "start_log"
    /\ log_lines' = AppendLog(log_lines,
                         InitLog(ResolveVoice(ccfg[c]), ClampSilence(ccfg[c].silence_seconds)))
    /\ cpc' = [cpc EXCEPT ![c] = "start_status"]
    /\ UNCHANGED <<thread, stop_event, vad_stream, current_tts, status,
                   last_transcription, last_translation, wpc, wargs, gen, segs, wtext,
                   tts_stops, cop, cthread, ctts, ccfg, ret, calls, launched, run_open>>
    /\ UNCHANGED <<evars, svars>>

\* line 176
StartStatus(c) ==
    /\ cpc[c] = "start_status"
    /\ status' = "Initializing..."
    /\ cpc' = [cpc EXCEPT ![c] = "start_launch"]
    /\ UNCHANGED <<thread, stop_event, vad_stream, current_tts, last_transcription,
                   last_translation, log_lines, wpc, wargs, gen, segs, wtext,
                   tts_stops, cop, cthread, ctts, ccfg, ret, calls, launched, run_open>>
    /\ UNCHANGED <<evars, svars>>

\* lines 178-190: the flag is cleared, the thread is started, start() returns
StartThread(c) ==
    /\ cpc[c] = "start_launch"
    /\ LET w == launched + 1
       IN  /\ stop_event' = FALSE
           /\ thread' = w
           /\ wpc' = [wpc EXCEPT ![w] = "init"]
           /\ wargs' = [wargs EXCEPT ![w] =
                            [voice |-> ResolveVoice(ccfg[c]),
                             silence |-> ClampSilence(ccfg[c].silence_seconds)]]
           /\ launched' = w
    /\ run_open' = TRUE
    /\ ret' = Returned("start", "Initializing...")
    /\ cpc' = [cpc EXCEPT ![c] = "idle"]
    /\ cop' = [cop EXCEPT ![c] = "none"]
    /\ ccfg' = [ccfg EXCEPT ![c] = NoConfig]
    /\ UNCHANGED <<vad_stream, current_tts, status, last_transcription,
                   last_translation, log_lines, gen, segs, wtext, tts_stops, cthread,
                   ctts, calls>>
    /\ UNCHANGED <<evars, svars>>

\* the steps of a worker that take no _thread_lock
WorkerUnlocked(w) ==
    \/ WorkerReady(w)
    \/ WorkerOpenStream(w)
    \/ WorkerNext(w)
    \/ WorkerCheck(w)
    \/ WorkerBegin(w)
    \/ RecognizerReturns(w)
    \/ TranslatorReturns(w)
    \/ SynthesizerReturns(w)
    \/ WorkerExcept(w)
    \/ WorkerFinally(w)

NextFine ==
    \/ ~StartInProgress /\ \E cfg \in Configs : StartRefused(cfg)
    \/ ~StartInProgress /\ \E c \in Stoppers : \E cfg \in Configs : StartEnter(c, cfg)
    \/ \E c \in Stoppers : StartLog(c)
    \/ \E c \in Stoppers : StartStatus(c)
    \/ \E c \in Stoppers : StartThread(c)
    \/ ~StartInProgress /\ \E c \in Stoppers : Stop(c)
    \/ \E c \in Stoppers : StopClose(c)
    \/ \E c \in Stoppers : StopRequest(c)
    \/ \E c \in Stoppers : StopJoin(c)
    \/ \E c \in Stoppers : StopJoinTimeout(c)
    \/ ~StartInProgress /\ \E c \in Stoppers : StopClear(c)
    \/ \E c \in Stoppers : StopFinish(c)
    \/ ~StartInProgress /\ \E w \in Workers : WorkerInit(w)
    \/ \E w \in Workers : WorkerUnlocked(w)
    \/ ~StartInProgress /\ \E w \in Workers : WorkerRelease(w)
    \/ \E w \in Workers : EngineYield(w)
    \/ \E w \in Workers : WorkerRaises(w)

SpecFine == Init /\ [][NextFine]_vars

(***************************************************************************)
(* A longer session: up to MaxSessionCalls calls of start(), stop() and    *)
(* hard_stop().  A start() can come at any moment, a stop() or hard_stop() *)
(* once the one before it has returned, and no more than MaxCalls workers  *)
(* are launched.  Nobody speaks: the workers wait for a segment until they *)
(* end.                                                                    *)
(***************************************************************************)
MaxSessionCalls == 5

SessionConfig ==
    [source_lang |-> "en", target_lang |-> "fr", voice_name |-> "fr-B",
     silence_seconds |-> 30]

SessionStart == launched < MaxCalls /\ StartWithin(SessionConfig, MaxSessionCalls)

SessionStop(c) == CallerIdle /\ StopEnterWithin(c, "stop", NoConfig, MaxSessionCalls)

SessionHardStop(c) ==
    CallerIdle /\ StopEnterWithin(c, "hard_stop", NoConfig, MaxSessionCalls)

\* the steps of a worker that gets no segment
WorkerWaits(w) ==
    \/ WorkerInit(w)
    \/ WorkerReady(w)
    \/ WorkerOpenStream(w)
    \/ WorkerNext(w)
    \/ WorkerExcept(w)
    \/ WorkerFinally(w)
    \/ WorkerRelease(w)

NextSession ==
    \/ SessionStart
    \/ \E c \in Stoppers : SessionStop(c)
    \/ \E c \in Stoppers : SessionHardStop(c)
    \/ \E c \in Stoppers : StopStep(c)
    \/ \E w \in Workers : WorkerWaits(w)
    \/ \E w \in Workers : WorkerRaises(w)

SpecSession == Init /\ [][NextSession]_vars

(***************************************************************************)
(* Runs that nobody stops: start() and the workers.                        *)
(***************************************************************************)
NextRun ==
    \/ StartAny
    \/ \E w \in Workers : WorkerStep(w)
    \/ \E w \in Workers : EngineYield(w)
    \/ \E w \in Workers : WorkerRaises(w)

SpecRun == Init /\ [][NextRun]_vars

(***************************************************************************)
(* Two runs of up to two segments each, polled by snapshot().  The         *)
(* recognizer and the translator return nothing or a text that tells the   *)
(* segment, so that the fields tell which segment they come from.          *)
(***************************************************************************)
MaxPairCalls == 2
MaxPairSegments == 2

\* what is said in the k-th segment of a run, and its translation
Word(k) == IF k = 1 THEN "hello" ELSE "world"
Rendering(k) == IF k = 1 THEN "bonjour" ELSE "monde"

PairStart == StartWithin(SessionConfig, MaxPairCalls)

PairRecognizer(w) == RecognizerGives(w, {"", Word(segs[w])})

PairTranslator(w) == TranslatorGives(w, {"", Rendering(segs[w])})

PairWorkerStep(w) ==
    \/ WorkerInit(w)
    \/ WorkerReady(w)
    \/ WorkerOpenStream(w)
    \/ WorkerNext(w)
    \/ WorkerCheck(w)
    \/ WorkerBegin(w)
    \/ PairRecognizer(w)
    \/ PairTranslator(w)
    \/ SynthesizerReturns(w)
    \/ WorkerExcept(w)
    \/ WorkerFinally(w)
    \/ WorkerRelease(w)

NextPairs ==
    \/ PairStart
    \/ \E w \in Workers : PairWorkerStep(w)
    \/ \E w \in Workers : EngineYieldWithin(w, MaxPairSegments)
    \/ \E w \in Workers : WorkerRaises(w)
    \/ Snapshot

SpecPairs == Init /\ [][NextPairs]_vars

(***************************************************************************)
(* Properties of the controller.                                           *)
(***************************************************************************)
\* a step that is a call of start(): it returns within the step
StartStep == calls' = calls + 1 /\ cpc' = cpc /\ ret'.op = "start"

\* a step that is the entry of a call of stop()
StopCallStep ==
    /\ calls' = calls + 1
    /\ \/ cpc' = cpc /\ ret'.op = "stop"
       \/ \E c \in Stoppers : cpc[c] = "idle" /\ cpc'[c] # "idle" /\ cop'[c] = "stop"

\* the step in which stopper c returns from stop()
StopReturnStep(c) == cpc[c] = "finish" /\ cop[c] = "stop" /\ cpc'[c] = "idle"

\* C1: at every moment, under every interleaving of the public methods, at
\* most one worker thread is alive.
C1_AtMostOneWorker == Cardinality(AliveWorkers) <= 1

\* C2 as stated: a start() that follows a start() which launched a worker,
\* with no stop in between, returns "Already running" and launches nothing.
C2_SecondStartRejected ==
    [][StartStep /\ run_open
          => ret'.value = "Already running" /\ launched' = launched]_vars

\* C2: a start() that follows a start() which launched a worker, with no stop
\* in between and with that worker still alive, returns "Already running",
\* launches nothing and leaves the handle on that worker.
C2_SecondStartRejectedWhileAlive ==
    [][StartStep /\ run_open /\ launched # 0 /\ IsAlive(launched)
          => /\ ret'.value = "Already running"
             /\ launched' = launched
             /\ thread' = launched
             /\ UNCHANGED <<wpc, status, log_lines>>]_vars

C2_Witness ==
    /\ ret = Returned("start", "Already running")
    /\ run_open
    /\ launched = 1
    /\ IsAlive(1)
    /\ calls = 2

\* C3: stop() called while no worker is alive returns "Already stopped", sets
\* the status to "Stopped" and leaves the handle, the stop flag, the log and the
\* latest transcription and translation as they were; called again, it does
\* the same and changes nothing at all.
C3_StopWithNoWorker ==
    [][StopCallStep /\ AliveWorkers = {}
          => /\ ret' = Returned("stop", "Already stopped")
             /\ status' = "Stopped"
             /\ UNCHANGED <<thread, stop_event, log_lines, last_transcription,
                            last_translation, vad_stream, current_tts>>
             /\ (ret = Returned("stop", "Already stopped") /\ status = "Stopped"
                    => UNCHANGED <<status, ret>>)]_vars

C3_Witness ==
    /\ ret = Returned("stop", "Already stopped")
    /\ status = "Stopped"
    /\ calls = 3
    /\ launched = 1
    /\ AliveWorkers = {}
    /\ \A c \in Stoppers : cpc[c] = "idle"

\* C4: a stop() on a running pipeline sets the status to "Stopping..." when
\* it is called; when it returns "Stopped" the worker it stopped has ended,
\* the handle no longer refers to it, nor to any ended worker, and the status
\* is "Stopped".
C4_StopTerminatesWorker ==
    [][/\ StopCallStep /\ ~NothingToStop => status' = "Stopping..."
       /\ \A c \in Stoppers :
             StopReturnStep(c)
                => /\ ret' = Returned("stop", "Stopped")
                   /\ cthread[c] # 0
                   /\ wpc'[cthread[c]] = "dead"
                   /\ thread' # cthread[c]
                   /\ thread' = 0 \/ (thread' > cthread[c] /\ IsAlive(thread)')
                   /\ status' = "Stopped"]_vars

C4_Witness ==
    /\ ret = Returned("stop", "Stopped")
    /\ status = "Stopped"
    /\ thread = 0
    /\ launched = 1
    /\ wpc[1] = "dead"
    /\ calls = 2

\* C5: a stop() called while the worker is blocked waiting for the next
\* segment returns in the end: closing the audio source unblocks the read.
C5_StopReturnsWhileBlocked ==
    \A c \in Stoppers :
        (cpc[c] = "close" /\ cop[c] = "stop" /\ wpc[cthread[c]] = "blocked")
            ~> (cpc[c] = "idle")

(***************************************************************************)
(* Properties of the engine.                                               *)
(***************************************************************************)
\* a candidate or segment of fewer samples than min_chunk_sec * sample_rate
BelowMinimum(a) == ArrLen(a) * 1000 < vad.sample_rate * vad.min_chunk_sec

\* a step in which a frame goes through the classifier
FrameStep == last_frame' # last_frame

\* a step in which the classifier returns a probability at or below the
\* threshold
SilenceFrameStep ==
    FrameStep /\ last_frame'.outcome # "failed" /\ last_frame'.prob <= vad.threshold

\* the time since the last frame above the threshold
SilenceSoFar == now - last_speech_time

\* the utterance in progress
Candidate == CatAll(speech_buffer)

\* arrays a and b have no sample in common
Disjoint(a, b) ==
    \A i \in 1 .. Len(a) : \A j \in 1 .. Len(b) :
        a[i].lo + a[i].n <= b[j].lo \/ b[j].lo + b[j].n <= a[i].lo

\* C6: every segment the engine emits has at least min_chunk_sec *
\* sample_rate samples, and every candidate it drops has fewer.
C6_EmittedMeetMinimum ==
    /\ \A i \in 1 .. Len(emitted) : ~BelowMinimum(emitted[i])
    /\ \A i \in 1 .. Len(discarded) : BelowMinimum(discarded[i])

C6_Witness ==
    /\ Len(emitted) >= 1
    /\ Len(discarded) >= 1
    /\ last_frame.outcome = "emitted"

\* C7 as stated: a long enough run of speech followed by a frame of silence
\* classified when the silence has lasted exactly silence_duration yields a
\* segment.
C7_SegmentAtExactSilence ==
    [][SilenceFrameStep /\ speech_active /\ ~BelowMinimum(Candidate)
            /\ SilenceSoFar = vad.silence_duration
          => Len(emitted') = Len(emitted) + 1]_vars

\* C7: a long enough run of speech followed by a frame of silence classified
\* when the silence has lasted more than silence_duration yields exactly one
\* segment, made of all the frames above the threshold since the previous
\* candidate, in their order; at exactly silence_duration nothing is yielded
\* and the engine stays active.
C7_SegmentAfterSilence ==
    [][SilenceFrameStep /\ speech_active /\ ~BelowMinimum(Candidate)
          => /\ SilenceSoFar > vad.silence_duration
                => /\ emitted' = Append(emitted, Candidate)
                   /\ DropArr(above', ArrLen(above') - ArrLen(Candidate)) = Candidate
                   /\ ArrLen(above') = ArrLen(CatAll(emitted')) + ArrLen(CatAll(discarded'))
                   /\ ~speech_active'
             /\ SilenceSoFar = vad.silence_duration
                => /\ UNCHANGED <<emitted, speech_buffer>>
                   /\ speech_active']_vars

C7_Witness ==
    /\ last_frame.outcome = "emitted"
    /\ Len(emitted) = 1
    /\ ArrLen(emitted[1]) = 3 * frame_size
    /\ emitted[1] = above
    /\ last_frame.at - last_speech_time = vad.silence_duration + TickMs

\* C8: at 16000 Hz with frames of 512 samples, threshold 0.6, 3.0 s of
\* silence and a minimum of 0.5 s, 2.0 s of speech followed by 3.5 s of
\* silence yield exactly one segment, which holds the speech frames, and no
\* second one.
C8_TwoSecondsOneSegment ==
    scenario.speech \in {62, 63}
        => /\ Len(emitted) <= 1
           /\ discarded = <<>>
           /\ ScenarioDone => emitted = <<Block(0, scenario.speech * frame_size)>>

C8_Witness ==
    /\ ScenarioDone
    /\ scenario.speech = 62
    /\ Len(emitted) = 1
    /\ ArrLen(emitted[1]) = 62 * frame_size

\* C9: a burst of speech shorter than the minimum followed by silence past
\* silence_duration yields no segment: the candidate is dropped, the engine
\* is inactive again with an empty buffer, and no dropped sample is in any
\* segment.
C9_ShortBurstDiscarded ==
    /\ [](\A i \in 1 .. Len(emitted) : \A j \in 1 .. Len(discarded) :
              Disjoint(emitted[i], discarded[j]))
    /\ [][SilenceFrameStep /\ speech_active /\ BelowMinimum(Candidate)
               /\ SilenceSoFar > vad.silence_duration
             => /\ emitted' = emitted
                /\ discarded' = Append(discarded, Candidate)
                /\ ~speech_active'
                /\ speech_buffer' = <<>>]_vars

C9_Witness ==
    /\ Len(discarded) >= 1
    /\ Len(emitted) >= 1
    /\ discarded[1][1].lo < emitted[1][1].lo
    /\ ~speech_active
    /\ speech_buffer = <<>>

\* C10: as long as every frame has had a probability at or below the
\* threshold, no segment has been yielded, no candidate dropped, and the
\* engine has never been active.
C10_QuietStreamNoSegment ==
    loudest <= vad.threshold
        => /\ emitted = <<>>
           /\ discarded = <<>>
           /\ ~speech_active
           /\ speech_buffer = <<>>
           /\ above = <<>>

C10_Witness ==
    /\ loudest = vad.threshold
    /\ last_frame.outcome = "silence"
    /\ last_frame.chunk = Block(2 * frame_size, frame_size)
    /\ now > vad.silence_duration

(***************************************************************************)
(* Properties of the worker loop.                                          *)
(***************************************************************************)
\* the step in which transcribe_chunk returns to worker w
RecognizerStep(w) == wpc[w] = "stt" /\ wpc'[w] \notin {"stt", "except"}

\* the step in which translate_text returns to worker w
TranslatorStep(w) == wpc[w] = "translate" /\ wpc'[w] # "translate"

\* C11: when the recognizer returns no text for a segment, the log gains
\* "No transcription returned.", the status is "Listening..." again, and the
\* worker asks for the next segment: the translator and the synthesizer are
\* not called, and the latest transcription and translation stay.
C11_EmptyRecognitionSkips ==
    [][\A w \in Workers :
          RecognizerStep(w) /\ wtext'[w] = ""
             => /\ log_lines' = Append(log_lines, "No transcription returned.")
                /\ status' = "Listening..."
                /\ wpc'[w] = "next"
                /\ UNCHANGED <<last_transcription, last_translation, tts_stops>>]_vars

C11_Witness ==
    \E w \in Workers :
        /\ wpc[w] = "blocked"
        /\ segs[w] = 1
        /\ status = "Listening..."
        /\ log_lines[Len(log_lines)] = "No transcription returned."
        /\ last_transcription = ""

\* C12: when the translator returns nothing for a segment, the log gains
\* "Translation failed or empty.", the status goes straight to
\* "Listening...", and the worker asks for the next segment: the synthesizer
\* is not called and the run goes on, without Error.
C12_EmptyTranslationSkips ==
    [][\A w \in Workers :
          TranslatorStep(w) /\ wtext'[w] = ""
             => /\ log_lines' = Append(log_lines, "Translation failed or empty.")
                /\ status' = "Listening..."
                /\ wpc'[w] = "next"
                /\ IsAlive(w)'
                /\ UNCHANGED <<last_transcription, last_translation>>]_vars

C12_Witness ==
    \E w \in Workers :
        /\ wpc[w] = "blocked"
        /\ segs[w] = 1
        /\ status = "Listening..."
        /\ log_lines[Len(log_lines)] = "Translation failed or empty."
        /\ last_transcription = "hello"
        /\ last_translation = ""

(***************************************************************************)
(* Properties of start().                                                  *)
(***************************************************************************)
\* cfg names two languages of the catalog
KnownLanguages(cfg) ==
    cfg.source_lang \in DOMAIN languages /\ cfg.target_lang \in DOMAIN languages

\* cfg names a voice of its target language
OwnVoice(cfg) ==
    \E i \in 1 .. Len(languages[cfg.target_lang]) :
        languages[cfg.target_lang][i] = cfg.voice_name

C14_InvalidLanguageRefused ==
    [][\A cfg \in AllConfigs :
          StartWith(cfg) /\ AliveWorkers = {} /\ ~KnownLanguages(cfg)
          => /\ ret' = Returned("start", "Invalid language selection")
             /\ status' = "Error"
             /\ log_lines' = Append(log_lines, "Invalid language selection.")
             /\ UNCHANGED <<wpc, launched, thread, stop_event>>]_vars

C14_Witness ==
    /\ ret = Returned("start", "Invalid language selection")
    /\ status = "Error"
    /\ launched = 1
    /\ wpc[1] = "dead"
    /\ thread = 0

\* C15: start() for a target language of the catalog that has no voice
\* returns "Voice unavailable", sets the status to "Error" and launches
\* nothing; it does not raise.
C15_VoiceUnavailable ==
    [][\A cfg \in AllConfigs :
          /\ StartWith(cfg)
          /\ AliveWorkers = {}
          /\ KnownLanguages(cfg)
          /\ languages[cfg.target_lang] = <<>>
          => /\ ret' = Returned("start", "Voice unavailable")
             /\ status' = "Error"
             /\ UNCHANGED <<wpc, launched>>]_vars

(***************************************************************************)
(* Properties of failures.                                                 *)
(***************************************************************************)
\* C16: when the worker loop has raised, the exception is logged and the
\* worker ends, and as long as no start() or stop() follows, the status is
\* "Error".
C16_ErrorStatusStays ==
    \A w \in Workers :
        /\ launched = w
        /\ run_open
        /\ wpc[w] = "dead"
        /\ log_lines # <<>>
        /\ log_lines[Len(log_lines)] = "Pipeline error"
        => status = "Error"

\* the step in which stopper c is past the close() of the engine's generator
CloseStep(c) == cpc[c] = "close" /\ cpc'[c] = "request"

\* C17: stop() and hard_stop() never raise: an exception thrown while the
\* audio source is closed is caught and logged, and the call goes on.
C17_CloseFailureLogged ==
    [][\A c \in Stoppers :
          CloseStep(c) /\ vad_stream # 0 /\ gen[vad_stream] = "running"
             => /\ Len(log_lines') = Len(log_lines) + 1
                /\ ~ret'.raised]_vars

(***************************************************************************)
(* Properties of snapshot().                                               *)
(***************************************************************************)
\* a step in which snapshot() returns something new
SnapshotStep == snap' # snap

\* C19: snapshot() changes none of the status, log, latest transcription,
\* latest translation, handle, cancellation flag and engine handle, and the
\* four values it returns are those of one and the same state.
C19_SnapshotReadOnly ==
    [][SnapshotStep
          => /\ UNCHANGED <<status, log_lines, last_transcription, last_translation,
                            thread, stop_event, vad_stream>>
             /\ snap'.status = status
             /\ snap'.transcription = last_transcription
             /\ snap'.translation = last_translation
             /\ Len(log_lines) <= max_log_lines => snap'.log = log_lines]_vars

C19_Witness ==
    /\ snap.status = "Translating..."
    /\ snap.transcription = "hello"
    /\ snap.translation = ""
    /\ Len(snap.log) = 3
    /\ status = "Stopped"
    /\ last_translation = "bonjour"

\* C18: the stored log never holds more than max_log_lines entries, and
\* neither does the text snapshot() returns.
C18_LogWithinCap ==
    /\ Len(log_lines) <= max_log_lines
    /\ Len(snap.log) <= max_log_lines

\* C20: _state_lock is only ever held by a thread whose next step is to
\* release it, never across a blocking call, a join or the taking of
\* _thread_lock; so a snapshot() that waits for it gets it, whoever holds
\* _thread_lock, joins the worker or waits in a call.
C20_SnapshotNeverWaits ==
    /\ [](state_lock # "free" => Op(state_lock) = "S-")
    /\ (Op("poller") = "S+") ~> (Op("poller") = "none")

C20_Witness ==
    /\ state_lock = "poller"
    /\ thread_lock = "starter"
    /\ Op("stopper") = "join"
    /\ Op("worker") = "call"

\* a configuration start() accepts: both languages are in the catalog and
\* the target language has a voice
ValidConfig(cfg) == ~InvalidLanguage(cfg) /\ ~NoVoice(cfg)

\* the step in which thread c returns from restart_with(), out of its start()
RestartReturnStep(c) == cpc[c] = "restart_start" /\ cpc'[c] = "idle"

\* C21: with one caller, a restart_with() given a valid configuration returns
\* "Initializing...", never "Already running", whether its stop() found a
\* worker or not; on its return the only worker alive is the one it has just
\* launched, with the voice and the silence duration of the new
\* configuration, and every earlier worker has ended.
C21_RestartIsStopThenStart ==
    [][\A c \in Stoppers :
          RestartReturnStep(c) /\ ValidConfig(ccfg[c])
             => /\ ret' = Returned("restart_with", "Initializing...")
                /\ AliveWorkers = {}
                /\ launched' = launched + 1
                /\ thread' = launched'
                /\ {w \in Workers : IsAlive(w)'} = {launched'}
                /\ wargs'[launched'] = [voice |-> ResolveVoice(ccfg[c]),
                                        silence |-> ClampSilence(ccfg[c].silence_seconds)]
                /\ \A w \in 1 .. launched : wpc'[w] = "dead"]_vars

\* a restart_with() that stopped a running worker launched with one
\* configuration and started the next with another
C21_Witness ==
    /\ ret = Returned("restart_with", "Initializing...")
    /\ launched = 2
    /\ wpc[1] = "dead"
    /\ wpc[2] = "init"
    /\ wargs[2] = [voice |-> "fr-B", silence |-> 30]
    /\ status = "Initializing..."
    /\ "Pipeline stopped." \notin SeqToSet(log_lines)
    /\ calls = 2

\* the step in which thread c returns "Initializing..." from start()
StartReturnStep(c) == cpc[c] = "start_launch" /\ cpc'[c] = "idle"

\* C22: when a start() returns "Initializing..." the log holds its own entry
\* and nothing else, the latest transcription and translation are empty, the
\* stop flag is clear and the status is "Initializing...".
C22_StartResetsState ==
    [][\A c \in Stoppers :
          StartReturnStep(c)
             => /\ ret' = Returned("start", "Initializing...")
                /\ Len(log_lines') = 1
                /\ last_transcription' = ""
                /\ last_translation' = ""
                /\ stop_event' = FALSE
                /\ status' = "Initializing..."]_vars

\* the step in which thread c enters _stop_pipeline() and finds a worker
StopEnterStep(c) == cpc[c] = "idle" /\ cpc'[c] = "close"

\* the step of lines 211-219 of thread c
StopRequestStep(c) == cpc[c] = "request" /\ cpc'[c] = "join"

\* C23: hard_stop() goes through the steps of stop(); before its join it
\* calls stop() on the synthesizer that was registered when it took
\* _thread_lock, and on nothing when none was registered; that synthesizer
\* is the one of the worker it is stopping; no step of stop() or of
\* restart_with() calls a synthesizer's stop().
C23_HardStopCancelsSynthesizer ==
    [][/\ \A c \in Stoppers :
             /\ StopEnterStep(c)
                  => /\ ctts'[c] = current_tts
                     /\ cthread'[c] = thread
                     /\ stop_event'
                     /\ status' = StoppingStatus(cop'[c])
             /\ StopRequestStep(c)
                  => /\ cop[c] = "hard_stop" /\ ctts[c] # 0
                          => tts_stops' = tts_stops \cup {ctts[c]}
                     /\ cop[c] # "hard_stop" \/ ctts[c] = 0 => tts_stops' = tts_stops
                     /\ ctts[c] \in {0, cthread[c]}
                     /\ cpc'[c] = "join"
       /\ ~(tts_stops' \subseteq tts_stops)
             => \E c \in Stoppers : StopRequestStep(c) /\ cop[c] = "hard_stop"]_vars

\* a step in which a worker thread is started
LaunchStep == launched' = launched + 1

\* C24: the silence duration a worker is started with, which it hands to its
\* engine, is never below the minimum; it is the minimum when start() was
\* asked for less and the requested duration otherwise.
C24_SilenceAtLeastMinimum ==
    /\ [](\A w \in Workers : IsAlive(w) => wargs[w].silence >= MinSilenceTenths)
    /\ [][LaunchStep
             => \E cfg \in AllConfigs :
                   /\ StartWith(cfg)
                   /\ cfg.silence_seconds < MinSilenceTenths
                         => wargs'[launched'].silence = MinSilenceTenths
                   /\ cfg.silence_seconds >= MinSilenceTenths
                         => wargs'[launched'].silence = cfg.silence_seconds]_vars

\* a worker started with a longer silence has ended, and the next one, for
\* which 0.2s was asked, waits in its engine with the minimum
C24_Witness ==
    /\ launched = 2
    /\ wpc[1] = "dead"
    /\ wpc[2] = "blocked"
    /\ wargs[2].silence = MinSilenceTenths
    /\ log_lines[1] = InitLog("fr-B", MinSilenceTenths)
    /\ calls = 2

\* the statuses of a run in progress, and the edges between them
RunStatuses ==
    {"Initializing...", "Listening...", "Transcribing...", "Translating...",
     "Speaking..."}

RunEdges ==
    {<<"Initializing...", "Listening...">>, <<"Listening...", "Transcribing...">>,
     <<"Transcribing...", "Translating...">>, <<"Translating...", "Speaking...">>,
     <<"Speaking...", "Listening...">>, <<"Transcribing...", "Listening...">>,
     <<"Translating...", "Listening...">>}

\* the workers with a collaborator call in flight
InCall == {w \in Workers : wpc[w] \in {"stt", "translate", "speak"}}

\* worker w enters the call pc in this step
Enters(w, pc) == wpc[w] # pc /\ wpc'[w] = pc

\* C25: in runs that nobody stops, the status of a run in progress changes
\* along the edges Initializing -> Listening -> Transcribing -> Translating
\* -> Speaking -> Listening, Transcribing -> Listening and Translating ->
\* Listening only, or to "Error" when the worker raises; the recognizer is
\* called for a segment received, the translator when the recognizer has
\* returned a text for it, the synthesizer when the translator has returned
\* a translation of it; at most one collaborator call is in flight.
C25_StatusEdgesAndSequence ==
    /\ [](Cardinality(InCall) <= 1)
    /\ [][/\ (status \in RunStatuses /\ status' # status)
               => (<<status, status'>> \in RunEdges \/ status' = "Error")
          /\ \A w \in Workers :
                 /\ Enters(w, "stt")
                      => wpc[w] = "stt_begin" /\ segs[w] > 0 /\ gen[w] = "suspended"
                 /\ Enters(w, "translate")
                      => /\ wpc[w] = "stt"
                         /\ wtext'[w] \in Texts \ {""}
                         /\ last_transcription' = wtext'[w]
                 /\ Enters(w, "check_speak")
                      => /\ wpc[w] = "translate"
                         /\ wtext'[w] \in Translations \ {""}
                         /\ last_translation' = wtext'[w]
                 /\ Enters(w, "speak")
                      => /\ wpc[w] = "speak_begin"
                         /\ wtext[w] \in Translations \ {""}]_vars

\* a segment went through the three collaborators and the worker listens again
C25_Witness ==
    /\ status = "Listening..."
    /\ wpc[1] = "blocked"
    /\ segs[1] = 1
    /\ last_transcription = "hello"
    /\ last_translation = "bonjour"
    /\ log_lines[Len(log_lines)] = "TTS playback completed."

\* the workers that hold a segment: from the moment the engine yields it to
\* the end of the loop body
Processing ==
    {w \in Workers : wpc[w] \in {"check_segment", "stt_begin", "stt", "translate",
                                  "check_speak", "speak_begin", "speak"}}

\* C26: under every interleaving of the lifecycle calls, at most one segment
\* is being processed, and a worker gets its next segment only when it has
\* finished with the one before.
C26_OneSegmentAtATime ==
    /\ Cardinality(Processing) <= 1
    /\ \A w \in Processing : gen[w] \in {"suspended", "closed"} /\ segs[w] > 0

\* worker w leaves the place pc in this step
Leaves(w, pc) == wpc[w] = pc /\ wpc'[w] # pc

\* C27: a worker that finds the stop flag set when it has received a segment
\* leaves the loop, and the recognizer is called only past that check with
\* the flag clear; one that finds it set after the translation leaves the
\* loop, and the synthesizer is called only past that check with the flag
\* clear; there is no check between the two: a text the recognizer returns
\* goes to the translator whether the flag is set or not.
C27_CancellationCheckpoints ==
    [][\A w \in Workers :
          /\ Leaves(w, "check_segment")
               => wpc'[w] = (IF stop_event THEN "finally" ELSE "stt_begin")
          /\ Leaves(w, "check_speak")
               => wpc'[w] = (IF stop_event THEN "finally" ELSE "speak_begin")
          /\ Enters(w, "stt_begin") => wpc[w] = "check_segment" /\ ~stop_event
          /\ Enters(w, "speak_begin") => wpc[w] = "check_speak" /\ ~stop_event
          /\ Enters(w, "stt") => wpc[w] = "stt_begin"
          /\ Enters(w, "speak") => wpc[w] = "speak_begin"
          /\ Leaves(w, "stt") /\ last_transcription' # last_transcription
               => wpc'[w] = "translate"
          /\ Leaves(w, "stt") /\ wpc'[w] \notin {"translate", "except"}
               => /\ wpc'[w] = "next"
                  /\ log_lines' = AppendLog(log_lines, "No transcription returned.")]_vars

\* the translation of a segment runs while a stop() waits for the worker
C27_Witness ==
    \E c \in Stoppers :
        /\ cop[c] = "stop"
        /\ cpc[c] = "join_forever"
        /\ cthread[c] = 1
        /\ stop_event
        /\ wpc[1] = "translate"
        /\ status = "Translating..."

\* the statuses a worker gives its run while it works
WorkingStatuses == {"Listening...", "Transcribing...", "Translating...", "Speaking..."}

\* C28: once a stop() has set the status to "Stopping...", no step changes
\* it to "Listening...", "Transcribing...", "Translating..." or
\* "Speaking...".
C28_StoppingStays ==
    [][status = "Stopping..." => status' \notin WorkingStatuses]_vars

\* C29: a worker on its way out, whether its loop ended, it was cancelled or
\* it raised, clears the stop flag and the engine handle and sets the status
\* to "Stopped"; as it ends it clears the registered synthesizer and leaves
\* the handle on no thread that has ended.  A start() called when no worker
\* is alive is never answered "Already running"; in particular the start()
\* that follows the end of the latest worker with no stop() in between.
C29_WorkerCleansUp ==
    /\ [](\A w \in Workers : wpc[w] = "dead" => thread # w /\ vad_stream # w /\ current_tts # w)
    /\ [][/\ \A w \in Workers :
                 /\ Leaves(w, "finally")
                      => ~stop_event' /\ vad_stream' = 0 /\ status' = "Stopped"
                 /\ Enters(w, "dead")
                      => wpc[w] = "release" /\ current_tts' = 0 /\ thread' \notin {w}
                 /\ Enters(w, "release") => wpc[w] = "finally"
          /\ StartStep /\ AliveWorkers = {}
                 => /\ ret'.value # "Already running"
                    /\ thread = 0
                    /\ vad_stream = 0
                    /\ current_tts = 0]_vars

\* the first worker raised and ended; the start() after it, with no stop()
\* in between, launched the second
C29_Witness ==
    /\ ret = Returned("start", "Initializing...")
    /\ calls = 2
    /\ launched = 2
    /\ wpc[1] = "dead"
    /\ thread = 2
    /\ run_open
    /\ ~stop_event

\* C30: a worker whose synthesizer has received the stop() of a hard_stop()
\* does not begin a speak call after it.
C30_NoSpeakAfterCancel ==
    [][\A w \in Workers : Enters(w, "speak") => w \notin tts_stops]_vars

(***************************************************************************)
(* More properties of the engine.                                          *)
(***************************************************************************)
\* a step in which the classifier raises on the frame it is given
FailedFrameStep == FrameStep /\ last_frame'.outcome = "failed"

\* the frame a step takes off the rolling buffer
FrameTaken == TakeArr(rolling_buffer, frame_size)

\* C31 as stated: a frame whose inference fails is skipped with
\* speech_active, the buffer and last_speech_time as they were, and it is
\* handled as a frame below the threshold is: with speech active and the
\* silence elapsed, the candidate is finalized.
C31_FailedFrameIsSilence ==
    [][FailedFrameStep
          => /\ UNCHANGED <<speech_active, speech_buffer, last_speech_time>>
             /\ rolling_buffer' = DropArr(rolling_buffer, frame_size)
             /\ speech_active /\ SilenceElapsed
                   => Len(emitted') + Len(discarded') = Len(emitted) + Len(discarded) + 1]_vars

\* C31: a frame whose inference fails is taken off the rolling buffer and
\* skipped: speech_active, the buffer, last_speech_time and the segments are
\* as they were, and the frames after it are classified as before.  It is
\* not a frame below the threshold: with speech active and the silence
\* elapsed it finalizes nothing, and the candidate waits for the next frame
\* that is classified.
C31_FailedFrameSkipped ==
    [][FailedFrameStep
          => /\ UNCHANGED <<speech_active, speech_buffer, last_speech_time, emitted,
                            discarded, above, audio_queue>>
             /\ rolling_buffer' = DropArr(rolling_buffer, frame_size)
             /\ last_frame'.chunk = FrameTaken]_vars

\* the inference failed on a frame that came with speech active and the
\* silence elapsed: the candidate is still there
C31_Witness ==
    /\ last_frame.outcome = "failed"
    /\ last_frame.at - last_speech_time > vad.silence_duration
    /\ speech_active
    /\ ArrLen(CatAll(speech_buffer)) = 2 * frame_size
    /\ emitted = <<>>
    /\ discarded = <<>>

\* the samples that have gone through the classifier: the frames are
\* consecutive, so the last one tells how many
ClassifiedEnd ==
    IF last_frame = NoFrame THEN 0 ELSE last_frame.chunk[1].lo + frame_size

\* the samples delivered and not yet classified, in the order in which the
\* engine will take them
Pending == Concat(rolling_buffer, CatAll(audio_queue))

\* a step that takes a block from the queue
PollStep == audio_queue' # audio_queue /\ fed' = fed

\* C32: whatever the sizes of the blocks and the pace of the callback, the
\* samples not yet classified are, in order, exactly those delivered after the
\* last frame classified; every frame is the 512 samples that follow the
\* frame before it; a block is taken from the head of the queue, and only
\* when the rolling buffer holds less than a frame, which it keeps in front
\* of the block.
C32_NoSampleDropped ==
    /\ [](Pending = IF fed = ClassifiedEnd THEN <<>>
                    ELSE Block(ClassifiedEnd, fed - ClassifiedEnd))
    /\ [][/\ FrameStep => last_frame'.chunk = Block(ClassifiedEnd, frame_size)
          /\ PollStep
                => /\ ArrLen(rolling_buffer) < frame_size
                   /\ rolling_buffer' = Concat(rolling_buffer, Head(audio_queue))
                   /\ audio_queue' = Tail(audio_queue)]_vars

\* the callback ran ahead of the engine: two frames are classified, half a
\* frame is left in the rolling buffer and two blocks wait in the queue
C32_Witness ==
    /\ ClassifiedEnd = 2 * frame_size
    /\ ArrLen(rolling_buffer) = frame_size \div 2
    /\ Len(audio_queue) = 2
    /\ audio_queue[1] # audio_queue[2]
    /\ ArrLen(audio_queue[1]) # ArrLen(audio_queue[2])

\* a step in which a candidate is cut: yielded or dropped
FinalizeStep == Len(emitted') + Len(discarded') # Len(emitted) + Len(discarded)

\* a step in which the classifier returns a probability above the threshold
SpeechFrameStep == FrameStep /\ last_frame'.outcome = "speech"

\* C33: a candidate is cut only by a frame at or below the threshold that is
\* classified while the engine is active and more than silence_duration
\* after the last frame above the threshold; while no more than
\* silence_duration has passed nothing is cut and an active engine stays
\* active; a frame above the threshold classified while the engine is active
\* is appended to the utterance in progress and sets the time of the last
\* speech to the present.
C33_FinalizeOnlyAfterSilence ==
    [][/\ FinalizeStep \/ (speech_active /\ ~speech_active')
             => SilenceFrameStep /\ speech_active /\ SilenceSoFar > vad.silence_duration
       /\ FrameStep /\ SilenceSoFar <= vad.silence_duration
             => /\ UNCHANGED <<emitted, discarded>>
                /\ speech_active => speech_active' /\ Len(speech_buffer') >= Len(speech_buffer)
       /\ SpeechFrameStep /\ speech_active
             => /\ speech_buffer' = Append(speech_buffer, last_frame'.chunk)
                /\ last_speech_time' = now
                /\ speech_active'
                /\ UNCHANGED <<emitted, discarded>>
       /\ ~FrameStep => UNCHANGED <<speech_active, speech_buffer, last_speech_time,
                                    emitted, discarded>>]_vars

\* speech, a pause, and speech again when the pause has lasted exactly
\* silence_duration: one utterance of two frames is in progress
C33_Witness ==
    /\ last_frame.outcome = "speech"
    /\ last_frame.at = vad.silence_duration
    /\ last_speech_time = vad.silence_duration
    /\ speech_active
    /\ speech_buffer = <<Block(0, frame_size), Block(2 * frame_size, frame_size)>>
    /\ emitted = <<>>
    /\ discarded = <<>>

\* the sample after the last one of a non-empty array
EndOf(a) == a[Len(a)].lo + a[Len(a)].n

\* the candidates cut so far, yielded or dropped
Finalized == SeqToSet(emitted) \cup SeqToSet(discarded)

\* C34: between frames the engine is active exactly when its buffer holds a
\* frame; a cut leaves the buffer empty and the engine inactive, and the
\* frame that makes the engine active is alone in the buffer; every frame in
\* the buffer, and so every candidate, comes after the frame that cut the
\* previous candidate.
C34_ActiveIffBuffering ==
    /\ [](speech_active <=> speech_buffer # <<>>)
    /\ [](\A i \in 1 .. Len(speech_buffer) : \A c \in Finalized :
              EndOf(c) + frame_size <= speech_buffer[i][1].lo)
    /\ [][/\ FinalizeStep => speech_buffer' = <<>> /\ ~speech_active'
          /\ ~speech_active /\ speech_active'
                => SpeechFrameStep /\ speech_buffer' = <<last_frame'.chunk>>
          /\ FinalizeStep
                => \A c \in Finalized : EndOf(c) + frame_size <= Candidate[1].lo]_vars

\* a second utterance is in progress after a first one was cut
C34_Witness ==
    /\ Len(emitted) + Len(discarded) = 1
    /\ speech_active
    /\ Len(speech_buffer) = 2
    /\ last_frame.outcome = "speech"

\* every sample of array a is a sample of array b
Within(a, b) ==
    \A i \in 1 .. Len(a) : \E j \in 1 .. Len(b) :
        b[j].lo <= a[i].lo /\ a[i].lo + a[i].n <= b[j].lo + b[j].n

\* array a is made of whole frames of the stream
WholeFrames(a) ==
    \A i \in 1 .. Len(a) : a[i].lo % frame_size = 0 /\ a[i].n % frame_size = 0

\* C35: every yielded segment, and the utterance in progress, is made of
\* samples of frames that were classified above the threshold, and of whole
\* frames, so that its length is a multiple of frame_size; a frame that was
\* classified at or below the threshold, or not classified because the
\* inference raised, is in no segment and not in the buffer, whether it is a
\* pause inside the utterance or the silence that ends it.
C35_SegmentsOfSpeechFrames ==
    /\ [](\A i \in 1 .. Len(emitted) :
              /\ Within(emitted[i], above)
              /\ WholeFrames(emitted[i])
              /\ ArrLen(emitted[i]) % frame_size = 0
              /\ ArrLen(emitted[i]) > 0)
    /\ [](Within(Candidate, above) /\ WholeFrames(Candidate))
    /\ [][FrameStep /\ ~SpeechFrameStep
             => /\ Disjoint(last_frame'.chunk, Candidate')
                /\ \A i \in 1 .. Len(emitted') : Disjoint(last_frame'.chunk, emitted'[i])
                /\ above' = above]_vars

\* a segment was yielded whose utterance had a pause of one frame in it
C35_Witness ==
    /\ last_frame.outcome = "emitted"
    /\ emitted = <<Block(0, frame_size) \o Block(2 * frame_size, frame_size)>>
    /\ last_frame.chunk = Block(3 * frame_size, frame_size)

(***************************************************************************)
(* More properties of the locks.                                           *)
(***************************************************************************)
\* the worker is on its exit path: past its last blocking call
WorkerExiting ==
    /\ WorkerAlive
    /\ \A i \in lpc["worker"] .. Len(RunPipeline) : RunPipeline[i] # "call"

\* C36: no thread takes _thread_lock while it holds _state_lock; a thread
\* that holds _thread_lock is about to take or release _state_lock, to start
\* the worker or to release _thread_lock, never to join, to close or to
\* call; the holder of _state_lock is about to release it; so a thread that
\* joins holds no lock, a worker on its exit path ends, and the join on it
\* returns.
C36_NoCircularWait ==
    /\ [](\A t \in LockThreads :
              /\ Op(t) = "T+" => state_lock # t /\ thread_lock # t
              /\ Op(t) \in {"join", "join2s", "close", "call", "none"}
                    => thread_lock # t /\ state_lock # t
              /\ state_lock = t => Op(t) = "S-")
    /\ [](thread_lock # "free" => Op(thread_lock) \in {"S+", "S-", "T-", "spawn"})
    /\ WorkerExiting ~> ~WorkerAlive
    /\ (Op("stopper") = "join" /\ WorkerExiting) ~> (Op("stopper") = "none")

\* stop() joins the worker, which is on its exit path and waits for
\* _thread_lock, held by a start() that was answered "Already running"
C36_Witness ==
    /\ Op("stopper") = "join"
    /\ Op("worker") = "T+"
    /\ WorkerExiting
    /\ thread_lock = "starter2"
    /\ path["starter2"] = "start_running"

(***************************************************************************)
(* More properties of the controller.                                      *)
(***************************************************************************)
\* the steps of lines 203-209, 227-228 and 230-232 of thread c
StopCloseStep(c) == cpc[c] = "close" /\ cpc'[c] = "request"

StopClearStep(c) == cpc[c] = "clear" /\ cpc'[c] = "finish"

StopFinishStep(c) == cpc[c] = "finish" /\ cpc'[c] = "idle"

\* is_running(), lines 347-349
IsRunning == thread # 0 /\ IsAlive(thread)

\* C37: a stop() or hard_stop() that found a worker alive when it held
\* _thread_lock closes no other worker's stream, clears the handle of no
\* other worker and writes no status over that of another worker that is
\* alive; the handle is on every worker that is alive, and is_running() is
\* true then.
C37_StopTouchesOnlyItsWorker ==
    /\ [](\A w \in AliveWorkers : thread = w /\ IsRunning)
    /\ [][\A c \in Stoppers :
             /\ StopCloseStep(c) /\ vad_stream \notin {0, cthread[c]}
                   => UNCHANGED <<vad_stream, gen>>
             /\ StopClearStep(c) /\ thread \notin {0, cthread[c]}
                   => UNCHANGED thread
             /\ StopFinishStep(c) /\ AliveWorkers \ {cthread[c]} # {}
                   => UNCHANGED status]_vars

\* C38: a worker is started with the stop flag clear, whatever an earlier
\* stop() left in it; the flag is set only by a stop(), hard_stop() or
\* restart_with() that holds _thread_lock and finds the handle on a live
\* worker, which is the latest one started; so the flag a worker finds set
\* was set after its own start.
C38_FlagClearAtLaunch ==
    [][/\ LaunchStep => ~stop_event' /\ thread' = launched' /\ wpc'[launched'] = "init"
       /\ ~stop_event /\ stop_event'
             => \E c \in Stoppers :
                   /\ StopEnterStep(c)
                   /\ cthread'[c] = thread
                   /\ thread = launched
                   /\ IsAlive(thread)
                   /\ launched' = launched
       /\ stop_event /\ ~stop_event'
             => LaunchStep \/ \E w \in Workers : Leaves(w, "finally")]_vars

\* a stop() set the flag when the first worker was past the clear of its
\* exit; the flag stayed set when that worker ended; the start() after it
\* cleared it, and the second worker has passed its first check
C38_Witness ==
    /\ launched = 2
    /\ wpc[1] = "dead"
    /\ wpc[2] = "stt_begin"
    /\ ~stop_event
    /\ \E c \in Stoppers : cthread[c] = 1 /\ cpc[c] = "join"

\* C39 as stated: the last transcription changes only in a step in which the
\* recognizer returns a text, the last translation only in a step in which
\* the translator returns one; an empty recognition leaves both as they
\* were; an empty translation leaves the translation as it was, under the
\* transcription of the segment.
C39_ChangeOnlyOnText ==
    [][/\ last_transcription' # last_transcription
             => \E w \in Workers :
                   RecognizerStep(w) /\ wtext'[w] # "" /\ last_transcription' = wtext'[w]
       /\ last_translation' # last_translation
             => \E w \in Workers :
                   TranslatorStep(w) /\ wtext'[w] # "" /\ last_translation' = wtext'[w]
       /\ \A w \in Workers :
             /\ RecognizerStep(w) /\ wtext'[w] = ""
                   => UNCHANGED <<last_transcription, last_translation>>
             /\ TranslatorStep(w) /\ wtext'[w] = ""
                   => UNCHANGED <<last_transcription, last_translation>>]_vars

\* C39: the last transcription changes only in a step in which the
\* recognizer returns a text or a start() that launches a worker empties it,
\* the last translation only in a step in which the translator returns a
\* text or such a start() empties it; an empty recognition leaves both as
\* they were; an empty translation leaves the translation as it was, under
\* the transcription the recognizer's step has recorded; what snapshot()
\* returns is the two fields as they are.
C39_ChangeOnTextOrReset ==
    /\ [](last_transcription \in {"", "hello", "world"})
    /\ [][/\ last_transcription' # last_transcription
                => \/ \E w \in Workers :
                         /\ RecognizerStep(w)
                         /\ wtext'[w] # ""
                         /\ last_transcription' = wtext'[w]
                   \/ LaunchStep /\ last_transcription' = ""
          /\ last_translation' # last_translation
                => \/ \E w \in Workers :
                         /\ TranslatorStep(w)
                         /\ wtext'[w] # ""
                         /\ last_translation' = wtext'[w]
                   \/ LaunchStep /\ last_translation' = ""
          /\ \A w \in Workers :
                /\ RecognizerStep(w) /\ wtext'[w] = ""
                      => UNCHANGED <<last_transcription, last_translation>>
                /\ TranslatorStep(w) /\ wtext'[w] = ""
                      => UNCHANGED <<last_transcription, last_translation>>
          /\ snap' # snap
                => /\ snap'.transcription = last_transcription
                   /\ snap'.translation = last_translation]_vars

\* the second segment was recognized and its translation came back empty:
\* snapshot() has returned its transcription with the translation of the
\* first segment
C39_Witness ==
    /\ snap.transcription = "world"
    /\ snap.translation = "bonjour"
    /\ last_transcription = "world"
    /\ last_translation = "bonjour"
    /\ \E w \in Workers : segs[w] = 2 /\ wpc[w] = "blocked"
    /\ log_lines[Len(log_lines)] = "Translation failed or empty."

====
